---- MODULE Spec2Model ----
(***************************************************************************)
(* Verification model of the ria-hunter ETL scripts.                       *)
(*                                                                         *)
(* Part 1: the persistence loaders scripts/load_to_supabase_final.py       *)
(*         ("final") and scripts/load_to_supabase_v2.py ("v2") running     *)
(*         against the remote store (tables advisers, filings,             *)
(*         ria_narratives).  One action per remote call of a run.          *)
(* Part 2: key derivation of scripts/load_to_supabase.py (salted hash).    *)
(* Part 3: the reconciliation matcher of                                   *)
(*         scripts/populate_all_private_placement_data.py.                 *)
(***************************************************************************)
EXTENDS Integers, Sequences, FiniteSets, TLC

VARIABLES
    variant,          \* which loader script runs: "final" or "v2"
    df,               \* the profiles table read from output/ria_profiles.csv
    advisers,         \* remote table advisers (set of rows)
    filings,          \* remote table filings
    ria_narratives,   \* remote table ria_narratives
    pc,               \* position of the running script
    run,              \* 1 = first run, 2 = the re-run
    i,                \* offset of the current batch (loop variable i)
    j,                \* index inside the batch during the per-record fallback
    unique_advisers,  \* load_advisers: de-duplicated adviser payload
    adviser_map,      \* cik -> adviser_pk
    filing_map,       \* adviser_fk -> filing_pk
    new_filings,      \* load_filings: filings to insert
    new_narratives,   \* load_narratives: narratives to insert
    unmatched,        \* load_narratives: counter of unmatched narratives
    log,              \* console lines about failures, as a set of records
    reported,         \* what the run printed as loaded
    hist,             \* history of the run, kept for the properties only
    seed,             \* part 2: PYTHONHASHSEED of each process
    ciks,             \* part 2: cik derived by each process
    mx,               \* part 3: state of the matcher
    cz,               \* part 4: state of the canonicalizer
    nb,               \* part 5: state of the narrative builder
    sh,               \* part 6: a script run from the shell
    xt,               \* part 7: state of the extraction of the base data
    em                \* part 8: state of the embedding step

vars == <<variant, df, advisers, filings, ria_narratives, pc, run, i, j,
          unique_advisers, adviser_map, filing_map, new_filings,
          new_narratives, unmatched, log, reported, hist, seed, ciks, mx,
          cz, nb, sh, xt, em>>

loaderVars == <<variant, df, advisers, filings, ria_narratives, pc, run, i, j,
                unique_advisers, adviser_map, filing_map, new_filings,
                new_narratives, unmatched, log, reported, hist>>

etlVars == <<cz, nb, sh, xt, em>>

-----------------------------------------------------------------------------
(* Bounds of the model *)

\* longest profiles table explored
MaxRows == 2

\* remote calls (batch or select level) the store may reject in one history
MaxRejects == 1

-----------------------------------------------------------------------------
(* Values *)

\* Python None
PyNone == "<None>"

\* pandas NaN, what read_csv yields for an empty cell
NaN == "<NaN>"

\* the integer 0 in a column of numbers
Zero == "<0>"

Min(a, b) == IF a < b THEN a ELSE b

\* str.strip() on the strings of the model: " " is the only one with blanks
Strip(s) == IF s = " " THEN "" ELSE s

\* str(value) for the cell values of the model
PyStr(v) ==
    IF v = NaN THEN "nan" ELSE IF v = PyNone THEN "None"
    ELSE IF v = Zero THEN "0" ELSE v

\* pd.isna(value)
IsNa(v) == v = NaN \/ v = PyNone

\* truth value of a Python object (NaN is a non-zero float, hence true)
Truthy(v) == v # "" /\ v # PyNone /\ v # Zero

\* Profile rows the tables are built from.
\*   rowA : a complete row
\*   rowB : same identifiers as rowA, other name and AUM
\*   rowN : identifiers but no firm name
\*   rowG : firm name but no usable identifier ("N" placeholder, empty SEC no.)
rowA == [firm_name |-> "A", sec_number |-> "S1", crd_number |-> "1",
         city |-> "X", state |-> "MO", aum |-> 1]
rowB == [firm_name |-> "B", sec_number |-> "S1", crd_number |-> "1",
         city |-> "Y", state |-> "MO", aum |-> 2]
rowN == [firm_name |-> NaN, sec_number |-> "S2", crd_number |-> "2",
         city |-> "X", state |-> "MO", aum |-> 1]
rowG == [firm_name |-> "A", sec_number |-> NaN, crd_number |-> "N",
         city |-> "X", state |-> "MO", aum |-> 2]

RowPool == {rowA, rowB, rowN, rowG}

Tables == UNION {[1..n -> RowPool] : n \in 1..MaxRows}

Variants == {"final", "v2"}

-----------------------------------------------------------------------------
(* Pure functions of the loaders *)

\* load_to_supabase_final.clean_value on a text cell
clean_value(value) ==
    IF IsNa(value) THEN PyNone
    ELSE IF value = "" THEN PyNone
    ELSE Strip(PyStr(value))

\* load_to_supabase_v2.clean_value on a text cell: the value itself unless NaN
v2_clean_value(value) == IF IsNa(value) THEN PyNone ELSE value

\* int(clean_value(row.get('aum', 0)) or 0)
\* (the aum column of the model holds integers only)
total_aum_of(row) == row.aum

\* hashlib.md5(s).hexdigest()[:12].upper(): a fixed digest of the text,
\* the same in every process; distinct texts of the model get distinct digests
MD5_12(s) == "md5<" \o s \o ">"

generate_unique_id(row) ==
    "GEN_" \o MD5_12(Strip(PyStr(row.firm_name)) \o "|" \o
                     Strip(PyStr(row.city)) \o "|" \o
                     Strip(PyStr(row.state)))

\* load_to_supabase_final: the cik of a row (load_advisers 73-78,
\* load_narratives 226-230)
final_cik(row) ==
    LET sec_number == clean_value(row.sec_number) IN
    IF Truthy(sec_number) /\ sec_number \notin {"NONE", "None", ""}
    THEN sec_number
    ELSE generate_unique_id(row)

\* load_to_supabase_final.load_advisers: "Skip if no firm name"
final_keep(row) == Truthy(clean_value(row.firm_name))

final_adviser(row) ==
    [cik |-> final_cik(row),
     legal_name |-> clean_value(row.firm_name),
     main_addr_city |-> clean_value(row.city),
     main_addr_state |-> clean_value(row.state)]

\* load_to_supabase_v2: crd = str(row.get('crd_number', ''))
v2_crd(row) == PyStr(row.crd_number)

\* load_to_supabase_v2.load_advisers: "Skip if no valid CRD"
v2_keep(row) ==
    ~(v2_crd(row) = "N" \/ v2_crd(row) = "" \/ IsNa(row.crd_number))

v2_adviser(row) ==
    [cik |-> v2_crd(row),
     legal_name |-> v2_clean_value(row.firm_name),
     main_addr_city |-> v2_clean_value(row.city),
     main_addr_state |-> v2_clean_value(row.state)]

\* advisers_data of load_advisers, before de-duplication
advisers_data(v, t) ==
    IF v = "final"
    THEN LET kept == SelectSeq(t, final_keep) IN
         [k \in 1..Len(kept) |-> final_adviser(kept[k])]
    ELSE LET kept == SelectSeq(t, v2_keep) IN
         [k \in 1..Len(kept) |-> v2_adviser(kept[k])]

\* a de-duplication in which the last record of each cik is kept
LastWins(s) ==
    LET idx == {k \in 1..Len(s) :
                   \A m \in (k + 1)..Len(s) : s[m].cik # s[k].cik} IN
    [n \in 1..Cardinality(idx) |->
        s[CHOOSE k \in idx : Cardinality({m \in idx : m <= k}) = n]]

RECURSIVE remove_duplicates(_)
\* "Remove duplicates based on CIK": the first record of each cik is kept
remove_duplicates(s) ==
    IF s = <<>> THEN <<>>
    ELSE LET front == remove_duplicates(SubSeq(s, 1, Len(s) - 1))
             last == s[Len(s)] IN
         IF \E k \in 1..Len(front) : front[k].cik = last.cik
         THEN front
         ELSE Append(front, last)

NoDedup(v, t) == advisers_data(v, t)

\* unique_advisers of load_advisers
unique_advisers_of(v, t) == remove_duplicates(advisers_data(v, t))

\* batch sizes of the loops, scaled down (500/500/250 in final,
\* 1000/1000/500 in v2) so that tables of MaxRows rows span several batches
adv_batch_size(v) == IF v = "final" THEN 1 ELSE 2
fil_batch_size(v) == IF v = "final" THEN 1 ELSE 2
narr_batch_size(v) == IF v = "final" THEN 1 ELSE 2

\* data[i:i + batch_size], i counted from 0
Batch(data, from, size) == SubSeq(data, from + 1, Min(from + size, Len(data)))

-----------------------------------------------------------------------------
(* The remote store: advisers(cik UNIQUE NOT NULL), filings, ria_narratives, *)
(* each with a SERIAL primary key.                                          *)

\* the rows of a sequence, as a set
Range(s) == {s[k] : k \in 1..Len(s)}

\* upsert([record], on_conflict='cik'): update the row of that cik, or
\* insert a new row under the next serial key
UpsertOne(rows, rec) ==
    IF \E r \in rows : r.cik = rec.cik
    THEN {IF r.cik = rec.cik
          THEN [adviser_pk |-> r.adviser_pk, cik |-> rec.cik,
                legal_name |-> rec.legal_name,
                main_addr_city |-> rec.main_addr_city,
                main_addr_state |-> rec.main_addr_state]
          ELSE r : r \in rows}
    ELSE rows \cup {[adviser_pk |-> Cardinality(rows) + 1, cik |-> rec.cik,
                     legal_name |-> rec.legal_name,
                     main_addr_city |-> rec.main_addr_city,
                     main_addr_state |-> rec.main_addr_state]}

RECURSIVE UpsertAll(_, _)
\* upsert(batch, on_conflict='cik') of a batch the store accepts
UpsertAll(rows, batch) ==
    IF batch = <<>> THEN rows
    ELSE UpsertAll(UpsertOne(rows, Head(batch)), Tail(batch))

\* a batch the store can accept: ON CONFLICT DO UPDATE refuses a statement
\* that holds the same key twice, and cik is NOT NULL
Acceptable(batch) ==
    /\ \A a, b \in 1..Len(batch) : batch[a].cik = batch[b].cik => a = b
    /\ \A a \in 1..Len(batch) : batch[a].cik # PyNone

RECURSIVE InsertFilings(_, _)
\* table('filings').insert(batch)
InsertFilings(rows, batch) ==
    IF batch = <<>> THEN rows
    ELSE InsertFilings(
             rows \cup {[filing_pk |-> Cardinality(rows) + 1,
                         adviser_fk |-> Head(batch).adviser_fk,
                         total_aum |-> Head(batch).total_aum]},
             Tail(batch))

RECURSIVE InsertNarratives(_, _)
\* table('ria_narratives').insert(batch)
InsertNarratives(rows, batch) ==
    IF batch = <<>> THEN rows
    ELSE InsertNarratives(
             rows \cup {[narrative_pk |-> Cardinality(rows) + 1,
                         adviser_fk |-> Head(batch).adviser_fk,
                         filing_fk |-> Head(batch).filing_fk,
                         narrative_text |-> Head(batch).narrative_text,
                         source |-> Head(batch).source]},
             Tail(batch))

\* select('adviser_pk, cik') turned into {cik: adviser_pk}; final asks for
\* the ciks of unique_advisers only, v2 for the whole table
adviser_map_of(v, rows, ua) ==
    LET wanted == IF v = "final"
                  THEN {r \in rows : \E k \in 1..Len(ua) : ua[k].cik = r.cik}
                  ELSE rows IN
    [c \in {r.cik : r \in wanted} |->
        (CHOOSE r \in wanted : r.cik = c).adviser_pk]

RECURSIVE items(_, _)
\* adviser_map.items(): the ciks of the map in the order of the select
items(amap, cs) ==
    IF cs = {} THEN <<>>
    ELSE LET first == CHOOSE c \in cs : \A d \in cs : amap[c] <= amap[d] IN
         <<first>> \o items(amap, cs \ {first})

\* load_to_supabase_final.load_filings: df[(firm_name == legal_name) |
\* (sec_number == cik)]; a NaN cell equals nothing
matching_rows(t, adviser_info) ==
    SelectSeq(t, LAMBDA row :
        \/ (~IsNa(row.firm_name) /\ row.firm_name = adviser_info.legal_name)
        \/ (~IsNa(row.sec_number) /\ row.sec_number = adviser_info.cik))

\* load_to_supabase_final.load_filings: one filing per entry of adviser_map,
\* built from the first matching row
final_filings_data(t, amap, ua) ==
    LET order == items(amap, DOMAIN amap)
        known(c) == \E k \in 1..Len(ua) : ua[k].cik = c
        info(c) == ua[CHOOSE k \in 1..Len(ua) : ua[k].cik = c]
        usable == SelectSeq(order, LAMBDA c :
                      known(c) /\ matching_rows(t, info(c)) # <<>>) IN
    [k \in 1..Len(usable) |->
        [adviser_fk |-> amap[usable[k]],
         total_aum |-> total_aum_of(matching_rows(t, info(usable[k]))[1])]]

\* load_to_supabase_v2.load_filings: one filing per row with a known CRD
v2_filings_data(t, amap) ==
    LET usable == SelectSeq(t, LAMBDA row :
                      v2_keep(row) /\ v2_crd(row) \in DOMAIN amap) IN
    [k \in 1..Len(usable) |->
        [adviser_fk |-> amap[v2_crd(usable[k])],
         total_aum |-> total_aum_of(usable[k])]]

filings_data(v, t, amap, ua) ==
    IF v = "final" THEN final_filings_data(t, amap, ua)
    ELSE v2_filings_data(t, amap)

\* adviser keys that have a filing: select('adviser_fk').in_(adviser_fk, ...)
existing_adviser_fks(frows, data) ==
    {f.adviser_fk : f \in frows} \cap {d.adviser_fk : d \in Range(data)}

KeepAllFilings(data, existing) == data

\* "Only insert new filings"
only_new_filings(data, existing) ==
    SelectSeq(data, LAMBDA f : f.adviser_fk \notin existing)

\* the text build_narrative renders for a row, reduced to the fields that
\* tell the rows of the model apart; "" when no clause is present
profile_narrative(row) ==
    IF ~Truthy(row.firm_name) /\ ~Truthy(row.city) /\ ~Truthy(row.crd_number)
    THEN ""
    ELSE PyStr(row.firm_name) \o "/" \o PyStr(row.city) \o "/" \o
         PyStr(row.crd_number)

\* build_narratives.main: the narratives file built from the profiles table
narratives_file(t) ==
    LET kept == SelectSeq(t, LAMBDA row :
                    Truthy(profile_narrative(row)) /\ Truthy(row.crd_number)) IN
    [k \in 1..Len(kept) |->
        [crd_number |-> PyStr(kept[k].crd_number),
         narrative |-> profile_narrative(kept[k]),
         source |-> "ria_profile"]]

\* filing_map.get(adviser_fk), PyNone when absent
filing_get(fmap, fk) == IF fk \in DOMAIN fmap THEN fmap[fk] ELSE 0

\* load_to_supabase_final.load_narratives 220-248: the i-th narrative is
\* matched to the i-th row of df
final_resolve(t, narrs, amap, fmap, k) ==
    LET cik == final_cik(t[k]) IN
    IF cik \in DOMAIN amap /\ filing_get(fmap, amap[cik]) # 0
    THEN [ok |-> TRUE, adviser_fk |-> amap[cik],
          filing_fk |-> filing_get(fmap, amap[cik])]
    ELSE [ok |-> FALSE, adviser_fk |-> 0, filing_fk |-> 0]

\* load_to_supabase_v2.load_narratives 167-177: matched by crd_number
v2_resolve(t, narrs, amap, fmap, k) ==
    LET crd == PyStr(narrs[k].crd_number) IN
    IF crd # "N" /\ crd # "" /\ crd \in DOMAIN amap
       /\ filing_get(fmap, amap[crd]) # 0
    THEN [ok |-> TRUE, adviser_fk |-> amap[crd],
          filing_fk |-> filing_get(fmap, amap[crd])]
    ELSE [ok |-> FALSE, adviser_fk |-> 0, filing_fk |-> 0]

NoGate(v, t, narrs, amap, fmap, k) == [ok |-> TRUE, adviser_fk |-> 0, filing_fk |-> 0]

resolve(v, t, narrs, amap, fmap, k) ==
    IF v = "final" THEN final_resolve(t, narrs, amap, fmap, k)
    ELSE v2_resolve(t, narrs, amap, fmap, k)

\* the narratives a run looks at: final stops at the length of df
candidates(v, t, narrs) ==
    IF v = "final" THEN 1..Min(Len(narrs), Len(t)) ELSE 1..Len(narrs)

\* narratives_data of load_narratives
narratives_data(v, t, narrs, amap, fmap) ==
    LET idx == SelectSeq([k \in 1..Len(narrs) |-> k], LAMBDA k :
                   k \in candidates(v, t, narrs)
                   /\ resolve(v, t, narrs, amap, fmap, k).ok) IN
    [n \in 1..Len(idx) |->
        [adviser_fk |-> resolve(v, t, narrs, amap, fmap, idx[n]).adviser_fk,
         filing_fk |-> resolve(v, t, narrs, amap, fmap, idx[n]).filing_fk,
         narrative_text |-> narrs[idx[n]].narrative,
         source |-> narrs[idx[n]].source]]

\* the unmatched counter of final (v2 keeps no counter)
unmatched_count(v, t, narrs, amap, fmap) ==
    IF v = "final"
    THEN Cardinality({k \in candidates(v, t, narrs) :
                         ~resolve(v, t, narrs, amap, fmap, k).ok})
    ELSE 0

\* "Only insert new narratives"
only_new_narratives(data, nrows) ==
    SelectSeq(data, LAMBDA n :
        n.filing_fk \notin {r.filing_fk : r \in nrows})

\* filing_map = {adviser_fk: filing_pk for row in select(filings)}: with
\* several filings of one adviser the last row returned wins, and the
\* store promises no order
filing_maps(frows) ==
    {fm \in [{f.adviser_fk : f \in frows} -> {f.filing_pk : f \in frows}] :
        \A a \in DOMAIN fm :
            \E f \in frows : f.adviser_fk = a /\ f.filing_pk = fm[a]}

-----------------------------------------------------------------------------
(* State of a loader run *)

NoFallback == [from |-> 0, batch |-> <<>>, ok |-> {}, failed |-> {},
               open |-> FALSE]

NoHistory ==
    [rejects |-> 0, fb |-> NoFallback, advClean |-> TRUE, advDone |-> FALSE,
     prevDf |-> <<>>, prevClean |-> FALSE, prevAdvCount |-> 0,
     accepted |-> [filings |-> 0, narratives |-> 0],
     fkAtStart |-> {}, fCount0 |-> 0, nCount0 |-> 0, crashed |-> FALSE]

NothingReported == [filings |-> -1, narratives |-> -1]

\* the other parts of the model, at rest
Part2Idle == seed = <<>> /\ ciks = <<>>
Part3Idle == mx = [phase |-> "off"]
Part4Idle == cz = [phase |-> "off"]
Part5Idle == nb = [phase |-> "off"]
Part6Idle == sh = [phase |-> "off"]
Part7Idle == xt = [phase |-> "off"]
Part8Idle == em = [phase |-> "off"]
EtlIdle ==
    Part4Idle /\ Part5Idle /\ Part6Idle /\ Part7Idle /\ Part8Idle

\* an empty store and a script that has not started
LoaderStart ==
    /\ advisers = {} /\ filings = {} /\ ria_narratives = {}
    /\ pc = "start" /\ run = 1 /\ i = 0 /\ j = 0
    /\ unique_advisers = <<>> /\ adviser_map = <<>> /\ filing_map = <<>>
    /\ new_filings = <<>> /\ new_narratives = <<>> /\ unmatched = 0
    /\ log = {} /\ reported = NothingReported /\ hist = NoHistory

LoaderInit == variant \in Variants /\ df \in Tables /\ LoaderStart

Init == LoaderInit /\ Part2Idle /\ Part3Idle /\ EtlIdle

InRun == {"adv_upsert", "adv_retry", "adv_select", "fil_existing",
          "fil_insert", "fil_ids", "narr_existing", "narr_insert", "summary"}

Ended == {"done", "aborted", "exited", "crashed"}

\* the store may reject a call while the budget of rejections lasts
MayReject == hist.rejects < MaxRejects

Rejected(h) == [h EXCEPT !.rejects = @ + 1]

\* main() up to the call of load_advisers, and load_advisers 56-99
Begin ==
    /\ pc = "start"
    /\ unique_advisers' = unique_advisers_of(variant, df)
    /\ i' = 0 /\ j' = 0
    /\ adviser_map' = <<>> /\ filing_map' = <<>>
    /\ new_filings' = <<>> /\ new_narratives' = <<>> /\ unmatched' = 0
    /\ log' = {} /\ reported' = NothingReported
    /\ hist' = [hist EXCEPT !.fb = NoFallback, !.advClean = TRUE,
                            !.advDone = FALSE,
                            !.accepted = [filings |-> 0, narratives |-> 0],
                            !.fkAtStart = {f.adviser_fk : f \in filings},
                            !.fCount0 = Cardinality(filings),
                            !.nCount0 = Cardinality(ria_narratives)]
    /\ pc' = IF Len(unique_advisers') = 0 THEN "adv_select" ELSE "adv_upsert"
    /\ UNCHANGED <<variant, df, advisers, filings, ria_narratives, run,
                   seed, ciks, mx, etlVars>>

\* load_to_supabase_v2.main 214-233: the status check fails, main returns
StartupFail ==
    /\ pc = "start" /\ variant = "v2" /\ MayReject
    /\ pc' = "exited"
    /\ hist' = Rejected(hist)
    /\ UNCHANGED <<variant, df, advisers, filings, ria_narratives, run, i, j,
                   unique_advisers, adviser_map, filing_map, new_filings,
                   new_narratives, unmatched, log, reported, seed, ciks, mx, etlVars>>

adv_batch == Batch(unique_advisers, i, adv_batch_size(variant))

\* where the adviser loop stands after the batch at offset i
after_adv_batch ==
    IF i + adv_batch_size(variant) >= Len(unique_advisers)
    THEN "adv_select" ELSE "adv_upsert"

\* upsert(batch, on_conflict='cik') accepted by the store
AdvUpsertOk ==
    /\ pc = "adv_upsert"
    /\ Acceptable(adv_batch)
    /\ advisers' = UpsertAll(advisers, adv_batch)
    /\ i' = i + adv_batch_size(variant)
    /\ pc' = after_adv_batch
    /\ UNCHANGED <<variant, df, filings, ria_narratives, run, j,
                   unique_advisers, adviser_map, filing_map, new_filings,
                   new_narratives, unmatched, log, reported, hist,
                   seed, ciks, mx, etlVars>>

\* the batch upsert raises: the error is printed, the records of the batch
\* are tried one by one
AdvUpsertFail ==
    /\ pc = "adv_upsert"
    /\ MayReject \/ ~Acceptable(adv_batch)
    /\ log' = log \cup {[kind |-> "batch", key |-> ToString(i)]}
    /\ j' = 1
    /\ pc' = "adv_retry"
    /\ hist' = [Rejected(hist) EXCEPT
                   !.fb = [from |-> i, batch |-> adv_batch, ok |-> {},
                           failed |-> {}, open |-> TRUE]]
    /\ UNCHANGED <<variant, df, advisers, filings, ria_narratives, run, i,
                   unique_advisers, adviser_map, filing_map, new_filings,
                   new_narratives, unmatched, reported, seed, ciks, mx, etlVars>>

StopAtFailure(k, n) == n + 1

\* the index the fallback loop takes up after record k of n failed
next_after_failure(k, n) == k + 1

\* the fallback loop moves to index k: past the batch, the batch loop goes on
RetryStep(k) ==
    IF k > Len(adv_batch)
    THEN /\ j' = 0
         /\ i' = i + adv_batch_size(variant)
         /\ pc' = after_adv_batch
    ELSE /\ j' = k
         /\ i' = i
         /\ pc' = "adv_retry"

\* the text printed for a record that failed on its own
failed_key(rec) == IF variant = "final" THEN rec.legal_name ELSE rec.cik

\* upsert([record], on_conflict='cik') accepted
AdvRetryOk ==
    /\ pc = "adv_retry"
    /\ Acceptable(<<adv_batch[j]>>)
    /\ advisers' = UpsertOne(advisers, adv_batch[j])
    /\ RetryStep(j + 1)
    /\ hist' = [hist EXCEPT !.fb.ok = @ \cup {adv_batch[j]},
                            !.fb.open = j + 1 <= Len(adv_batch)]
    /\ UNCHANGED <<variant, df, filings, ria_narratives, run,
                   unique_advisers, adviser_map, filing_map, new_filings,
                   new_narratives, unmatched, log, reported, seed, ciks, mx, etlVars>>

\* upsert([record]) raises: "Failed: ..." is printed, the loop goes on
AdvRetryFail ==
    /\ pc = "adv_retry"
    /\ log' = log \cup {[kind |-> "record", key |-> failed_key(adv_batch[j])]}
    /\ RetryStep(next_after_failure(j, Len(adv_batch)))
    /\ hist' = [hist EXCEPT
                   !.fb.failed = @ \cup {adv_batch[j]},
                   !.fb.open = next_after_failure(j, Len(adv_batch))
                                   <= Len(adv_batch),
                   !.advClean = FALSE]
    /\ UNCHANGED <<variant, df, advisers, filings, ria_narratives, run,
                   unique_advisers, adviser_map, filing_map, new_filings,
                   new_narratives, unmatched, reported, seed, ciks, mx, etlVars>>

\* a call outside every try block raises: main prints the error and
\* re-raises it (load_to_supabase_final 336-338, load_to_supabase_v2 275-277)
Abort ==
    /\ MayReject
    /\ pc' = "aborted"
    /\ hist' = Rejected(hist)
    /\ UNCHANGED <<variant, df, advisers, filings, ria_narratives, run, i, j,
                   unique_advisers, adviser_map, filing_map, new_filings,
                   new_narratives, unmatched, log, reported, seed, ciks, mx, etlVars>>

\* load_advisers 118-128: the select that builds adviser_map; load_filings
\* starts with it
AdvSelectOk ==
    /\ pc = "adv_select"
    /\ adviser_map' = adviser_map_of(variant, advisers, unique_advisers)
    /\ pc' = IF variant = "final"
                /\ filings_data(variant, df, adviser_map', unique_advisers) = <<>>
             THEN "fil_ids" ELSE "fil_existing"
    /\ hist' = [hist EXCEPT !.advDone = TRUE]
    /\ UNCHANGED <<variant, df, advisers, filings, ria_narratives, run, i, j,
                   unique_advisers, filing_map, new_filings, new_narratives,
                   unmatched, log, reported, seed, ciks, mx, etlVars>>

AdvSelectFail == pc = "adv_select" /\ Abort

\* load_filings: the select of the existing filings, then the filter
FilExistingOk ==
    /\ pc = "fil_existing"
    /\ LET data == filings_data(variant, df, adviser_map, unique_advisers)
           new == only_new_filings(data, existing_adviser_fks(filings, data)) IN
       /\ new_filings' = new
       /\ pc' = IF new = <<>> THEN "fil_ids" ELSE "fil_insert"
       /\ reported' = IF new = <<>> THEN [reported EXCEPT !.filings = 0]
                      ELSE reported
    /\ i' = 0
    /\ UNCHANGED <<variant, df, advisers, filings, ria_narratives, run, j,
                   unique_advisers, adviser_map, filing_map, new_narratives,
                   unmatched, log, hist, seed, ciks, mx, etlVars>>

FilExistingFail == pc = "fil_existing" /\ Abort

fil_batch == Batch(new_filings, i, fil_batch_size(variant))

\* the filing loop after the batch at offset i: past the last batch the
\* run prints "Loaded {len(new_filings)} new filings"
FilStep ==
    /\ i' = i + fil_batch_size(variant)
    /\ IF i + fil_batch_size(variant) >= Len(new_filings)
       THEN /\ pc' = "fil_ids"
            /\ reported' = [reported EXCEPT !.filings = Len(new_filings)]
       ELSE /\ pc' = "fil_insert"
            /\ reported' = reported

\* table('filings').insert(batch) accepted
FilInsertOk ==
    /\ pc = "fil_insert"
    /\ filings' = InsertFilings(filings, fil_batch)
    /\ FilStep
    /\ hist' = [hist EXCEPT !.accepted.filings = @ + Len(fil_batch)]
    /\ UNCHANGED <<variant, df, advisers, ria_narratives, run, j,
                   unique_advisers, adviser_map, filing_map, new_filings,
                   new_narratives, unmatched, log, seed, ciks, mx, etlVars>>

\* insert(batch) raises: the error is printed, the loop goes on
FilInsertFail ==
    /\ pc = "fil_insert"
    /\ MayReject
    /\ log' = log \cup {[kind |-> "filings_batch", key |-> ToString(i)]}
    /\ FilStep
    /\ hist' = Rejected(hist)
    /\ UNCHANGED <<variant, df, advisers, filings, ria_narratives, run, j,
                   unique_advisers, adviser_map, filing_map, new_filings,
                   new_narratives, unmatched, seed, ciks, mx, etlVars>>

\* the narratives a run reads from output/narratives.json
narratives == narratives_file(df)

\* load_filings: the select that builds filing_map; load_narratives then
\* prepares narratives_data and counts the unmatched narratives
FilIdsOk ==
    /\ pc = "fil_ids"
    /\ \E fm \in filing_maps(filings) :
        /\ filing_map' = fm
        /\ unmatched' = unmatched_count(variant, df, narratives, adviser_map, fm)
        /\ pc' = IF narratives_data(variant, df, narratives, adviser_map, fm) = <<>>
                 THEN "summary" ELSE "narr_existing"
    /\ UNCHANGED <<variant, df, advisers, filings, ria_narratives, run, i, j,
                   unique_advisers, adviser_map, new_filings, new_narratives,
                   log, reported, hist, seed, ciks, mx, etlVars>>

FilIdsFail == pc = "fil_ids" /\ Abort

\* load_narratives: the select of the existing narratives, then the filter
NarrExistingOk ==
    /\ pc = "narr_existing"
    /\ LET data == narratives_data(variant, df, narratives, adviser_map,
                                   filing_map)
           new == only_new_narratives(data, ria_narratives) IN
       /\ new_narratives' = new
       /\ pc' = IF new = <<>> THEN "summary" ELSE "narr_insert"
       /\ reported' = IF new = <<>> /\ variant = "v2"
                      THEN [reported EXCEPT !.narratives = 0]
                      ELSE reported
    /\ i' = 0
    /\ UNCHANGED <<variant, df, advisers, filings, ria_narratives, run, j,
                   unique_advisers, adviser_map, filing_map, new_filings,
                   unmatched, log, hist, seed, ciks, mx, etlVars>>

\* that select raises: final catches it around the whole block (253, 279-
\* 284) and goes on to the summary; v2 has no try there
NarrExistingFail ==
    /\ pc = "narr_existing"
    /\ MayReject
    /\ pc' = IF variant = "final" THEN "summary" ELSE "aborted"
    /\ log' = IF variant = "final"
              THEN log \cup {[kind |-> "narratives", key |-> "select"]}
              ELSE log
    /\ hist' = Rejected(hist)
    /\ UNCHANGED <<variant, df, advisers, filings, ria_narratives, run, i, j,
                   unique_advisers, adviser_map, filing_map, new_filings,
                   new_narratives, unmatched, reported, seed, ciks, mx, etlVars>>

narr_batch == Batch(new_narratives, i, narr_batch_size(variant))

\* the narrative loop after the batch at offset i
NarrStep ==
    /\ i' = i + narr_batch_size(variant)
    /\ IF i + narr_batch_size(variant) >= Len(new_narratives)
       THEN /\ pc' = "summary"
            /\ reported' = [reported EXCEPT !.narratives = Len(new_narratives)]
       ELSE /\ pc' = "narr_insert"
            /\ reported' = reported

\* table('ria_narratives').insert(batch) accepted
NarrInsertOk ==
    /\ pc = "narr_insert"
    /\ ria_narratives' = InsertNarratives(ria_narratives, narr_batch)
    /\ NarrStep
    /\ hist' = [hist EXCEPT !.accepted.narratives = @ + Len(narr_batch)]
    /\ UNCHANGED <<variant, df, advisers, filings, run, j,
                   unique_advisers, adviser_map, filing_map, new_filings,
                   new_narratives, unmatched, log, seed, ciks, mx, etlVars>>

\* insert(batch) raises: the error is printed, the loop goes on
NarrInsertFail ==
    /\ pc = "narr_insert"
    /\ MayReject
    /\ log' = log \cup {[kind |-> "narratives_batch", key |-> ToString(i)]}
    /\ NarrStep
    /\ hist' = Rejected(hist)
    /\ UNCHANGED <<variant, df, advisers, filings, ria_narratives, run, j,
                   unique_advisers, adviser_map, filing_map, new_filings,
                   new_narratives, unmatched, seed, ciks, mx, etlVars>>

\* main: "Data loading complete!" and the final counts
SummaryOk ==
    /\ pc = "summary"
    /\ pc' = "done"
    /\ UNCHANGED <<variant, df, advisers, filings, ria_narratives, run, i, j,
                   unique_advisers, adviser_map, filing_map, new_filings,
                   new_narratives, unmatched, log, reported, hist,
                   seed, ciks, mx, etlVars>>

\* the count of advisers or of filings raises
SummaryFail == pc = "summary" /\ Abort

\* the script is started again, on the table t
Rerun(t) ==
    /\ pc \in Ended
    /\ run = 1
    /\ run' = 2
    /\ df' = t
    /\ pc' = "start"
    /\ hist' = [hist EXCEPT !.prevDf = df,
                            !.prevClean = hist.advDone /\ hist.advClean,
                            !.prevAdvCount = Cardinality(advisers)]
    /\ UNCHANGED <<variant, advisers, filings, ria_narratives, i, j,
                   unique_advisers, adviser_map, filing_map, new_filings,
                   new_narratives, unmatched, log, reported, seed, ciks, mx, etlVars>>

\* the table of a later run: the same file, or the file regenerated with
\* one row changed
revisions(t) ==
    {u \in [1..Len(t) -> RowPool] :
        Cardinality({k \in 1..Len(t) : u[k] # t[k]}) <= 1}

\* the operator starts the script again
RunAgain == pc # "crashed" /\ \E t \in revisions(df) : Rerun(t)

\* the process is killed between two remote calls
Crash ==
    /\ pc \in InRun
    /\ run = 1
    /\ pc' = "crashed"
    /\ hist' = [hist EXCEPT !.crashed = TRUE]
    /\ UNCHANGED <<variant, df, advisers, filings, ria_narratives, run, i, j,
                   unique_advisers, adviser_map, filing_map, new_filings,
                   new_narratives, unmatched, log, reported, seed, ciks, mx, etlVars>>

\* after the interruption the same script runs again on the same input
Resume == pc = "crashed" /\ Rerun(df)

Next ==
    \/ Begin \/ StartupFail
    \/ AdvUpsertOk \/ AdvUpsertFail \/ AdvRetryOk \/ AdvRetryFail
    \/ AdvSelectOk \/ AdvSelectFail
    \/ FilExistingOk \/ FilExistingFail \/ FilInsertOk \/ FilInsertFail
    \/ FilIdsOk \/ FilIdsFail
    \/ NarrExistingOk \/ NarrExistingFail \/ NarrInsertOk \/ NarrInsertFail
    \/ SummaryOk \/ SummaryFail
    \/ RunAgain

Spec == Init /\ [][Next]_vars

\* runs the store never rejects, interrupted at most once and resumed
NextCrash ==
    \/ Begin
    \/ AdvUpsertOk \/ AdvSelectOk
    \/ FilExistingOk \/ FilInsertOk \/ FilIdsOk
    \/ NarrExistingOk \/ NarrInsertOk
    \/ SummaryOk
    \/ Crash \/ Resume

SpecCrash == Init /\ [][NextCrash]_vars

-----------------------------------------------------------------------------
(* Properties of the loaders *)

\* the adviser row of the store that carries the fields of payload rec
Stored(rec) ==
    \E r \in advisers :
        /\ r.cik = rec.cik
        /\ r.legal_name = rec.legal_name
        /\ r.main_addr_city = rec.main_addr_city
        /\ r.main_addr_state = rec.main_addr_state

\* C1: running the adviser upsert twice in a row on identical input leaves
\* the number of adviser rows unchanged; every cik has exactly one row, and
\* after an adviser stage whose records the store accepted the row of each
\* submitted cik carries the values of that (latest) run.
C1_UpsertIdempotent ==
    /\ \A a, b \in advisers : a.cik = b.cik => a = b
    /\ (hist.advDone /\ hist.advClean) =>
           \A k \in 1..Len(unique_advisers) : Stored(unique_advisers[k])
    /\ (run = 2 /\ hist.advDone /\ hist.advClean /\ hist.prevClean
        /\ df = hist.prevDf) =>
           Cardinality(advisers) = hist.prevAdvCount

\* a second run on identical input has completed, with two advisers stored
C1_Witness ==
    /\ run = 2 /\ pc = "done" /\ df = hist.prevDf
    /\ hist.advClean /\ hist.prevClean
    /\ Len(unique_advisers) = 2 /\ Cardinality(advisers) = 2

\* narrative k of the file cannot be resolved: its adviser key is not in
\* adviser_map, or the store holds no filing of that adviser
C3_Unresolved(k) ==
    LET key == IF variant = "final" THEN final_cik(df[k])
               ELSE PyStr(narratives[k].crd_number) IN
    \/ key \notin DOMAIN adviser_map
    \/ ~\E f \in filings : f.adviser_fk = adviser_map[key]

\* the narrative rows inserted by the current run
C3_Inserted == {n \in ria_narratives : n.narrative_pk > hist.nCount0}

C4_NoSecondFiling ==
    \A f \in filings :
        f.filing_pk > hist.fCount0 => f.adviser_fk \notin hist.fkAtStart

\* the re-run has ended on an input whose AUM for an adviser differs from
\* the AUM of the filing that adviser already had
C4_Witness ==
    /\ run = 2 /\ pc = "done"
    /\ \E f \in filings :
        /\ f.filing_pk <= hist.fCount0
        /\ \E d \in Range(filings_data(variant, df, adviser_map,
                                       unique_advisers)) :
               d.adviser_fk = f.adviser_fk /\ d.total_aum # f.total_aum

\* C5: when the store rejects a batch upsert of advisers, every record of
\* the batch is submitted on its own; the accepted ones are stored, the
\* rejected ones are logged, and the loop goes on with the next batch.
C5_BatchFallback ==
    LET fb == hist.fb IN
    /\ fb.open =>
        /\ pc = "adv_retry"
        /\ [kind |-> "batch", key |-> ToString(fb.from)] \in log
    /\ (fb.batch # <<>> /\ ~fb.open) =>
        /\ pc # "adv_retry"
        /\ fb.ok \cup fb.failed = Range(fb.batch)
        /\ \A rec \in fb.ok : Stored(rec)
        /\ \A rec \in fb.failed :
               [kind |-> "record", key |-> failed_key(rec)] \in log
        /\ pc = "adv_upsert" => i >= fb.from + adv_batch_size(variant)

\* a fallback has ended in which one record was stored and one was rejected
C5_Witness ==
    /\ ~hist.fb.open
    /\ hist.fb.ok # {} /\ hist.fb.failed # {}
    /\ hist.fb.ok \cap hist.fb.failed = {}

\* the content of the store without surrogate keys and timestamps: advisers
\* by cik, filings and narratives by the cik of their adviser
cik_of(arows, pk) == (CHOOSE a \in arows : a.adviser_pk = pk).cik

StoreView(arows, frows, nrows) ==
    [advisers |-> {[cik |-> a.cik, legal_name |-> a.legal_name,
                    main_addr_city |-> a.main_addr_city,
                    main_addr_state |-> a.main_addr_state] : a \in arows},
     filings |-> {[cik |-> cik_of(arows, f.adviser_fk),
                   total_aum |-> f.total_aum] : f \in frows},
     narratives |-> {[cik |-> cik_of(arows, n.adviser_fk),
                      narrative_text |-> n.narrative_text,
                      source |-> n.source] : n \in nrows}]

\* what one uninterrupted run of final on table t leaves in an empty store
UninterruptedRun(t) ==
    LET ua == unique_advisers_of("final", t)
        arows == UpsertAll({}, ua)
        amap == adviser_map_of("final", arows, ua)
        frows == InsertFilings({}, filings_data("final", t, amap, ua))
        fmap == CHOOSE fm \in filing_maps(frows) : TRUE
        nrows == InsertNarratives({},
                     narratives_data("final", t, narratives_file(t), amap, fmap))
    IN StoreView(arows, frows, nrows)

\* C2: a run of final interrupted after a remote write and then re-run to
\* completion on the same input leaves the store as one uninterrupted run
\* would have left it (surrogate keys and timestamps aside).
C2_ResumeConverges ==
    (variant = "final" /\ hist.crashed /\ run = 2 /\ pc = "done") =>
        StoreView(advisers, filings, ria_narratives) = UninterruptedRun(df)

\* the reference of C2 is what the model's uninterrupted run produces
C2_ReferenceIsARun ==
    (variant = "final" /\ ~hist.crashed /\ run = 1 /\ pc = "done") =>
        StoreView(advisers, filings, ria_narratives) = UninterruptedRun(df)

\* C6: once started, a run reaches its final summary; no error of the
\* remote store aborts it.
C6_RunNeverAborts == pc # "aborted"

\* C7: at the end of a run the counts printed as loaded for filings and
\* for narratives are the numbers of rows the store accepted in that run.
C7_ReportedIsAccepted ==
    pc = "done" =>
        /\ reported.filings >= 0 => reported.filings = hist.accepted.filings
        /\ reported.narratives >= 0 =>
               reported.narratives = hist.accepted.narratives

\* C8: the advisers submitted by load_advisers come only from rows with a
\* non-empty firm name.
C8_NamedRowsOnly ==
    pc \in InRun =>
        \A k \in 1..Len(unique_advisers) :
            /\ unique_advisers[k].legal_name \notin {PyNone, "", NaN}
            /\ \E n \in 1..Len(df) :
                /\ ~IsNa(df[n].firm_name) /\ Strip(df[n].firm_name) # ""
                /\ unique_advisers[k].legal_name = Strip(df[n].firm_name)

\* C8 for the final loader alone
C8_FinalNamedRowsOnly == variant = "final" => C8_NamedRowsOnly

-----------------------------------------------------------------------------
(* Part 2: the adviser key of a row, derived by separate processes *)

MaxProcs == 2
MaxSeed == 1

\* PYTHONHASHSEED: drawn at random at the start of every interpreter
HashSeeds == 0..MaxSeed

Scripts == {"final", "legacy"}

\* the bytes of a firm name as a number
Code(text) ==
    CASE text = "A" -> 65
      [] text = "B" -> 66
      [] text = NaN -> 78
      [] OTHER -> 32

\* hash(obj): the keyed hash of the interpreter. The empty string hashes to
\* 0 under every key; any other object to a value that depends on the key
\* of the process
PyHash(obj, s) == IF obj = "" THEN 0 ELSE Code(obj) * 1000003 + s * 7919

\* load_to_supabase.load_advisers: str(crd_number), else NO_CRD_<hash>
legacy_valid(row) ==
    LET cik == PyStr(row.crd_number) IN
    ~(cik = "N" \/ cik = "" \/ IsNa(row.crd_number))

legacy_cik(row, s) ==
    IF legacy_valid(row) THEN PyStr(row.crd_number)
    ELSE "NO_CRD_" \o ToString(PyHash(row.firm_name, s) % 1000000)

\* load_to_supabase_final.load_advisers: the test that selects sec_number
final_valid(row) ==
    LET sec_number == clean_value(row.sec_number) IN
    Truthy(sec_number) /\ sec_number \notin {"NONE", "None", ""}

\* the keys one process derives for the rows it retains
keys_of(script, t, s) ==
    IF script = "final"
    THEN [k \in {n \in 1..Len(t) : final_keep(t[n])} |->
             [valid |-> final_valid(t[k]),
              id |-> clean_value(t[k].sec_number),
              cik |-> final_cik(t[k])]]
    ELSE [k \in 1..Len(t) |->
             [valid |-> legacy_valid(t[k]),
              id |-> PyStr(t[k].crd_number),
              cik |-> legacy_cik(t[k], s)]]

\* one process derives the keys of the table
DeriveKeys(script, s) ==
    /\ Len(seed) < MaxProcs
    /\ seed' = Append(seed, s)
    /\ ciks' = Append(ciks, [script |-> script, keys |-> keys_of(script, df, s)])
    /\ UNCHANGED <<loaderVars, mx, etlVars>>

FinalProcess == \E s \in HashSeeds : DeriveKeys("final", s)

LegacyProcess == \E s \in HashSeeds : DeriveKeys("legacy", s)

InitCik ==
    LoaderInit /\ variant = "final" /\ Part2Idle /\ Part3Idle /\ EtlIdle

NextCik == FinalProcess \/ LegacyProcess

SpecCik == InitCik /\ [][NextCik]_vars

\* C9: the cik of a retained row is its registration identifier when that
\* is valid, and otherwise a synthetic key that is the same in every run
\* and every process of the same script.
C9_CikStable ==
    /\ \A p \in 1..Len(ciks) : \A k \in DOMAIN ciks[p].keys :
           ciks[p].keys[k].valid => ciks[p].keys[k].cik = ciks[p].keys[k].id
    /\ \A p, q \in 1..Len(ciks) :
           ciks[p].script = ciks[q].script => ciks[p].keys = ciks[q].keys

-----------------------------------------------------------------------------
(* Part 3: the matchers of the private-placement updaters *)

MaxPf == 2
MaxEx == 2

Matchers == {"existing", "crd"}

\* A name is the sequence of its characters; an absent name is the
\* one-element sequence that holds the marker of the absent value.
NoName == <<PyNone>>
NaNName == <<NaN>>
IsText(name) == name # NoName /\ name # NaNName

\* An identifier is a value with its type: the int 1 and the str "1" are
\* different values with the same string form.
IntId(digits) == [ty |-> "int", s |-> digits]
StrId(digits) == [ty |-> "str", s |-> digits]
NoId == [ty |-> "none", s |-> ""]

\* Series.astype(str) on one value
astype_str(v) == StrId(v.s)

upper_char(c) ==
    CASE c = "c" -> "C" [] c = "j" -> "J" [] c = "m" -> "M"
      [] c = "o" -> "O" [] c = "p" -> "P" [] c = "x" -> "X"
      [] OTHER -> c

\* str.upper()
str_upper(name) == [k \in 1..Len(name) |-> upper_char(name[k])]

MinOf(S) == CHOOSE a \in S : \A b \in S : a <= b

\* name.split(): the first whitespace-delimited token, <<>> when the name
\* has none (split() is then the empty list and [0] raises IndexError)
first_token(name) ==
    LET inked == {k \in 1..Len(name) : name[k] # " "} IN
    IF inked = {} THEN <<>>
    ELSE LET first == MinOf(inked)
             blanks == {k \in first..Len(name) : name[k] = " "}
             last == IF blanks = {} THEN Len(name) ELSE MinOf(blanks) - 1
         IN SubSeq(name, first, last)

\* text contains pat as a literal substring
LiteralSearch(pat, text) ==
    \E o \in 0..(Len(text) - Len(pat)) :
        \A k \in 1..Len(pat) : pat[k] = text[o + k]

\* re.search(pat, text), what Series.str.contains(pat) evaluates (regex=True
\* is its default): "." stands for any character, the other characters of
\* the model for themselves
re_search(pat, text) ==
    \E o \in 0..(Len(text) - Len(pat)) :
        \A k \in 1..Len(pat) : pat[k] = "." \/ pat[k] = text[o + k]

\* firm names of the analytical rows: "J.P m", "jxp", " " and, where the
\* table is read from a CSV file, a missing name
nJP == <<"J", ".", "P", " ", "m">>
nJXP == <<"j", "x", "p">>
nBlank == <<" ">>

\* legal names of the existing profiles: "Jxp Co", "j.p M", null
eJXP == <<"J", "x", "p", " ", "C", "o">>
eJP == <<"j", ".", "p", " ", "M">>

\* extract_private_fund_data: one row per firm name (the group key, never
\* missing) with an int crd_number; load_analysis_results: rows read from
\* the analysis file, which match_firms_to_crd reads by name only
PfRows(m) ==
    IF m = "existing"
    THEN [crd_number : {IntId("1"), IntId("9")},
          firm_name : {nJP, nJXP, nBlank}]
    ELSE [crd_number : {NoId}, firm_name : {nJP, nJXP, nBlank, NaNName}]

\* fetch_existing_rias: the rows of ria_profiles
ExRows == [crd_number : {IntId("1"), IntId("2")},
           legal_name : {eJXP, eJP, NoName}]

PfTables(m) == UNION {[1..n -> PfRows(m)] : n \in 1..MaxPf}
ExTables == UNION {[1..n -> ExRows] : n \in 0..MaxEx}

\* the result record appended to matches; ref is the position in
\* existing_df of the profile the result refers to, 0 when there is none
Result(match_type, crd_number, legal_name, firm_name, ref) ==
    [match_type |-> match_type, crd_number |-> crd_number,
     legal_name |-> legal_name, firm_name |-> firm_name, ref |-> ref]

\* existing_df[existing_df['legal_name'].str.upper().str.contains(
\*     firm_name.upper().split()[0], na=False)]
name_matches(firm_name, existing_df) ==
    {e \in 1..Len(existing_df) :
        /\ IsText(existing_df[e].legal_name)
        /\ re_search(first_token(str_upper(firm_name)),
                     str_upper(existing_df[e].legal_name))}

\* one iteration of the loop of match_firms_to_existing raises: the name
\* strategy is reached and the firm name has no token
existing_raises(pf_row, existing_df) ==
    /\ ~\E e \in 1..Len(existing_df) :
           existing_df[e].crd_number = StrId(pf_row.crd_number.s)
    /\ first_token(str_upper(pf_row.firm_name)) = <<>>

\* one iteration of the loop of match_firms_to_existing
existing_row(pf_row, existing_df) ==
    LET crd_num == StrId(pf_row.crd_number.s)
        firm_name == pf_row.firm_name
        exact_match == {e \in 1..Len(existing_df) :
                           existing_df[e].crd_number = crd_num}
        names == name_matches(firm_name, existing_df)
    IN IF exact_match # {}
       THEN Result("crd_exact", crd_num,
                   existing_df[MinOf(exact_match)].legal_name, firm_name,
                   MinOf(exact_match))
       ELSE IF names # {}
       THEN Result("name_partial", existing_df[MinOf(names)].crd_number,
                   existing_df[MinOf(names)].legal_name, firm_name,
                   MinOf(names))
       ELSE Result("none", crd_num, NoName, firm_name, 0)

\* existing_df[existing_df['legal_name'].str.upper() == firm_name.upper()]
crd_exact_match(firm_name, existing_df) ==
    {e \in 1..Len(existing_df) :
        /\ IsText(existing_df[e].legal_name)
        /\ str_upper(existing_df[e].legal_name) = str_upper(firm_name)}

\* one iteration of the loop of match_firms_to_crd raises: the table of
\* profiles has no legal_name column (no rows were fetched), the firm name
\* is a float, or the partial strategy is reached with a name without token
crd_raises(analysis_row, existing_df) ==
    \/ existing_df = <<>>
    \/ ~IsText(analysis_row.firm_name)
    \/ /\ crd_exact_match(analysis_row.firm_name, existing_df) = {}
       /\ first_token(str_upper(analysis_row.firm_name)) = <<>>

\* one iteration of the loop of match_firms_to_crd
crd_row(analysis_row, existing_df) ==
    LET firm_name == analysis_row.firm_name
        exact_match == crd_exact_match(firm_name, existing_df)
        partial_matches == name_matches(firm_name, existing_df)
    IN IF exact_match # {}
       THEN Result("exact", existing_df[MinOf(exact_match)].crd_number,
                   existing_df[MinOf(exact_match)].legal_name, firm_name,
                   MinOf(exact_match))
       ELSE IF partial_matches # {}
       THEN Result("partial",
                   existing_df[MinOf(partial_matches)].crd_number,
                   existing_df[MinOf(partial_matches)].legal_name, firm_name,
                   MinOf(partial_matches))
       ELSE Result("none", NoId, NoName, firm_name, 0)

row_raises(m, row, existing_df) ==
    IF m = "existing" THEN existing_raises(row, existing_df)
    ELSE crd_raises(row, existing_df)

row_result(m, row, existing_df) ==
    IF m = "existing" THEN existing_row(row, existing_df)
    ELSE crd_row(row, existing_df)

\* df['crd_number'] = df['crd_number'].astype(str)
crd_as_str(t) == [k \in 1..Len(t) |-> [t[k] EXCEPT !.crd_number = astype_str(@)]]

MatchIdle ==
    LoaderInit /\ variant = "final" /\ df = <<rowA>> /\ Part2Idle /\ EtlIdle

\* the call: the tables the script has loaded are handed to the matcher;
\* before keeps what the caller's tables held at the call
InitMatch ==
    /\ MatchIdle
    /\ \E m \in Matchers : \E pf \in PfTables(m) : \E ex \in ExTables :
           mx = [phase |-> "called", matcher |-> m, private_fund_df |-> pf,
                 existing_df |-> ex, k |-> 0, matches |-> <<>>,
                 before |-> [private_fund_df |-> pf, existing_df |-> ex]]

\* match_firms_to_existing 97-103 (the conversion of both crd_number
\* columns, KeyError when existing_df has no columns);
\* match_firms_to_crd 49-51
MatchBegin ==
    /\ mx.phase = "called"
    /\ mx' = IF mx.matcher = "crd"
             THEN [mx EXCEPT !.phase = "loop", !.k = 1]
             ELSE IF mx.existing_df = <<>>
             THEN [mx EXCEPT !.phase = "raised"]
             ELSE [mx EXCEPT !.phase = "loop", !.k = 1,
                      !.existing_df = crd_as_str(@),
                      !.private_fund_df = crd_as_str(@)]
    /\ UNCHANGED <<loaderVars, seed, ciks, etlVars>>

\* one iteration of the loop that appends a result
MatchRow ==
    /\ mx.phase = "loop" /\ mx.k <= Len(mx.private_fund_df)
    /\ ~row_raises(mx.matcher, mx.private_fund_df[mx.k], mx.existing_df)
    /\ mx' = [mx EXCEPT !.k = @ + 1,
                 !.matches = Append(@, row_result(mx.matcher,
                                 mx.private_fund_df[mx.k], mx.existing_df))]
    /\ UNCHANGED <<loaderVars, seed, ciks, etlVars>>

\* one iteration of the loop that raises: the call ends without a result
MatchRaise ==
    /\ mx.phase = "loop" /\ mx.k <= Len(mx.private_fund_df)
    /\ row_raises(mx.matcher, mx.private_fund_df[mx.k], mx.existing_df)
    /\ mx' = [mx EXCEPT !.phase = "raised"]
    /\ UNCHANGED <<loaderVars, seed, ciks, etlVars>>

\* return pd.DataFrame(matches)
MatchReturn ==
    /\ mx.phase = "loop" /\ mx.k > Len(mx.private_fund_df)
    /\ mx' = [mx EXCEPT !.phase = "returned"]
    /\ UNCHANGED <<loaderVars, seed, ciks, etlVars>>

NextMatch == MatchBegin \/ MatchRow \/ MatchRaise \/ MatchReturn

SpecMatch == InitMatch /\ [][NextMatch]_vars

\* the strategy the rule of C10 selects for a row: exact on the identifier
\* in string form, else partial on the literal first token, else none
SameIdentifier(a, b) == a.ty # "none" /\ b.ty # "none" /\ a.s = b.s

Claimed(row, existing_df) ==
    LET ids == {e \in 1..Len(existing_df) :
                   SameIdentifier(row.crd_number, existing_df[e].crd_number)}
        token == IF IsText(row.firm_name)
                 THEN first_token(str_upper(row.firm_name)) ELSE <<>>
        named == IF token = <<>> THEN {}
                 ELSE {e \in 1..Len(existing_df) :
                          /\ IsText(existing_df[e].legal_name)
                          /\ LiteralSearch(token,
                                 str_upper(existing_df[e].legal_name))}
    IN IF ids # {} THEN [kind |-> "exact", ref |-> MinOf(ids)]
       ELSE IF named # {} THEN [kind |-> "partial", ref |-> MinOf(named)]
       ELSE [kind |-> "none", ref |-> 0]

Kind(match_type) ==
    CASE match_type \in {"crd_exact", "exact"} -> "exact"
      [] match_type \in {"name_partial", "partial"} -> "partial"
      [] OTHER -> "none"

\* C10: the matcher returns one result per analytical row, chosen by the
\* first strategy that succeeds: exact when an existing profile has the same
\* identifier in string form, else partial when an existing name contains
\* the first token of the firm name (referring to the first such profile),
\* else none.
C10_StrategyOrder ==
    mx.phase \in {"loop", "returned"} =>
        /\ \A k \in 1..Len(mx.matches) :
               LET c == Claimed(mx.private_fund_df[k], mx.existing_df) IN
               /\ Kind(mx.matches[k].match_type) = c.kind
               /\ c.kind = "partial" => mx.matches[k].ref = c.ref
        /\ mx.phase = "returned" =>
               Len(mx.matches) = Len(mx.private_fund_df)

\* C11: when match_firms_to_existing returns, both tables of the caller
\* hold the values and value types they held at the call, and the store has
\* not been written.
C11_MatcherIsPure ==
    (mx.phase = "returned" /\ mx.matcher = "existing") =>
        /\ mx.private_fund_df = mx.before.private_fund_df
        /\ mx.existing_df = mx.before.existing_df
        /\ advisers = {} /\ filings = {} /\ ria_narratives = {}

-----------------------------------------------------------------------------
(* Part 4: the canonicalizer, apply_mappings.map_adv_columns_to_standard *)

MaxRaw == 2

\* The raw columns of the model. 1P, 1F1-State and 1F1-Postal are copied as
\* 1O and 1F1-City are, 5G3..5G7 are read as 5G1 and 5G2 are, 5D1c..5D1f
\* as 5D1a and 5D1b are.
StreetColumns == {"1F1-Street 1", "1F1-Street 2"}
RawColumns ==
    {"1A", "1B1", "1O", "1F1-City", "5F2f", "5B1a", "2A1",
     "5G1", "5G2", "5D1a"} \cup StreetColumns

\* adv_to_standard, in the order of the dict
adv_to_standard ==
    << <<"1A", "firm_name">>, <<"1B1", "firm_name">>,
       <<"1O", "crd_number">>, <<"1F1-City", "city">>,
       <<"5F2f", "aum">>, <<"5B1a", "employee_count">> >>

\* service_columns and client_columns, in the order of the dicts
service_columns ==
    << <<"5G1", "Financial Planning">>,
       <<"5G2", "Portfolio Management (Individuals)">> >>

client_columns == << <<"5D1a", "Individuals (non-high net worth)">> >>

\* the cells of the output: a value with its type
StrCell(v) == [t |-> "str", v |-> v]
IntCell(n) == [t |-> "int", v |-> n]
BoolCell(b) == [t |-> "bool", v |-> b]

\* the texts of the model that pandas parses as numbers, and their values
IsNumeric(v) == v \in {"0", "1", "2", "3", "-5", "5000000"}

Numeric(v) ==
    CASE v = "0" -> 0 [] v = "1" -> 1 [] v = "2" -> 2 [] v = "3" -> 3
      [] v = "-5" -> 0 - 5 [] v = "5000000" -> 5000000

\* rows of the raw table, as read_csv yields them (an empty cell is NaN)
rawA == [c \in RawColumns |->
    CASE c = "1A" -> "A" [] c = "1B1" -> NaN [] c = "1O" -> "1"
      [] c = "1F1-City" -> "X" [] c = "5F2f" -> "5000000"
      [] c = "5B1a" -> "12,000" [] c = "2A1" -> "Y"
      [] c = "5G1" -> "Y" [] c = "5G2" -> "Y" [] c = "5D1a" -> "Y"
      [] c = "1F1-Street 1" -> "1 Main" [] c = "1F1-Street 2" -> NaN]

rawB == [c \in RawColumns |->
    CASE c = "1A" -> NaN [] c = "1B1" -> "B" [] c = "1O" -> "2"
      [] c = "1F1-City" -> "Y" [] c = "5F2f" -> "abc"
      [] c = "5B1a" -> NaN [] c = "2A1" -> NaN
      [] c = "5G1" -> "N" [] c = "5G2" -> "Y" [] c = "5D1a" -> "N"
      [] c = "1F1-Street 1" -> NaN [] c = "1F1-Street 2" -> "Apt 2"]

rawC == [c \in RawColumns |->
    CASE c = "1A" -> "A" [] c = "1B1" -> "B" [] c = "1O" -> NaN
      [] c = "1F1-City" -> NaN [] c = "5F2f" -> "-5"
      [] c = "5B1a" -> "3" [] c = "2A1" -> "Y"
      [] c = "5G1" -> NaN [] c = "5G2" -> "N" [] c = "5D1a" -> "3"
      [] c = "1F1-Street 1" -> "1 Main" [] c = "1F1-Street 2" -> "Apt 2"]

rawD == [c \in RawColumns |->
    CASE c = "1A" -> NaN [] c = "1B1" -> NaN [] c = "1O" -> "1"
      [] c = "1F1-City" -> "X" [] c = "5F2f" -> NaN
      [] c = "5B1a" -> "5000000" [] c = "2A1" -> "Y"
      [] c = "5G1" -> "Y" [] c = "5G2" -> "N" [] c = "5D1a" -> "0"
      [] c = "1F1-Street 1" -> NaN [] c = "1F1-Street 2" -> NaN]

RawRows == {rawA, rawB, rawC, rawD}

\* a raw table: the columns its file has, and its rows
RawTables ==
    [columns : SUBSET RawColumns,
     rows : UNION {[1..n -> RawRows] : n \in 0..MaxRaw}]

MaxOf(S) == CHOOSE a \in S : \A b \in S : a >= b

\* output_data after the loop over adv_to_standard: for each canonical
\* column that was filled, the raw column it holds (a later entry of the
\* dict replaces an earlier one)
output_data(columns) ==
    LET hits(std) == {k \in 1..Len(adv_to_standard) :
                         /\ adv_to_standard[k][2] = std
                         /\ adv_to_standard[k][1] \in columns}
        stds == {adv_to_standard[k][2] : k \in
                    {n \in 1..Len(adv_to_standard) :
                        adv_to_standard[n][1] \in columns}}
    IN [std \in stds |-> adv_to_standard[MaxOf(hits(std))][1]]

\* '1F1-Street 1' in df.columns and '1F1-City' in df.columns
has_address(columns) == "1F1-Street 1" \in columns /\ "1F1-City" \in columns

\* read_csv gives a column the dtype object, its cells being str, as soon
\* as one of its cells is not a number
column_is_text(raw, c) ==
    \E k \in 1..Len(raw.rows) :
        ~IsNa(raw.rows[k][c]) /\ ~IsNumeric(raw.rows[k][c])

\* the call raises: KeyError of df['1F1-Street 2'], or TypeError of
\* df[col] > 0 on a column of str
canon_raises(raw) ==
    \/ has_address(raw.columns) /\ "1F1-Street 2" \notin raw.columns
    \/ \E e \in 1..Len(client_columns) :
           /\ client_columns[e][1] \in raw.columns
           /\ column_is_text(raw, client_columns[e][1])

\* len(output_df): a frame made from an empty dict has no rows, and gets
\* the index of df only from the Series df['2A1'].notna()
output_len(raw) ==
    IF DOMAIN output_data(raw.columns) # {} \/ "2A1" \in raw.columns
    THEN Len(raw.rows) ELSE 0

\* Series.fillna('') on one cell
fillna(v) == IF IsNa(v) THEN "" ELSE v

\* pd.to_numeric(errors='coerce').fillna(0).astype(int) on one cell
to_int(v) == IF IsNumeric(v) THEN Numeric(v) ELSE 0

\* mask = df[col] == 'Y'
service_mask(row, col) == row[col] = "Y"

\* mask = df[col] > 0, on a column of numbers
client_mask(row, col) == IsNumeric(row[col]) /\ Numeric(row[col]) > 0

\* the label columns that add to the output column: present, with
\* mask.any()
active(raw, table, kind) ==
    {e \in 1..Len(table) :
        /\ table[e][1] \in raw.columns
        /\ \E k \in 1..Len(raw.rows) :
               IF kind = "services"
               THEN service_mask(raw.rows[k], table[e][1])
               ELSE client_mask(raw.rows[k], table[e][1])}

RECURSIVE labels_of(_, _, _, _, _)
\* the text the loops 80-94 and 107-119 leave in one row: the labels of
\* the columns from e on whose mask holds for the row, joined with ", "
labels_of(row, columns, table, kind, e) ==
    IF e > Len(table) THEN ""
    ELSE LET rest == labels_of(row, columns, table, kind, e + 1)
             marked == /\ table[e][1] \in columns
                       /\ IF kind = "services"
                          THEN service_mask(row, table[e][1])
                          ELSE client_mask(row, table[e][1])
         IN IF ~marked THEN rest
            ELSE IF rest = "" THEN table[e][2]
            ELSE table[e][2] \o ", " \o rest

\* the columns of the frame that is returned
output_columns(raw) ==
    DOMAIN output_data(raw.columns)
    \cup (IF has_address(raw.columns) THEN {"address"} ELSE {})
    \cup {"is_registered", "data_source", "last_updated"}
    \cup (IF active(raw, service_columns, "services") # {}
          THEN {"services"} ELSE {})
    \cup (IF active(raw, client_columns, "client_types") # {}
          THEN {"client_types"} ELSE {})

\* one cell of the frame that is returned
output_cell(raw, row, c) ==
    CASE c \in {"aum", "employee_count"} ->
             IntCell(to_int(fillna(row[output_data(raw.columns)[c]])))
      [] c \in {"firm_name", "crd_number", "city"} ->
             StrCell(fillna(row[output_data(raw.columns)[c]]))
      [] c = "address" ->
             LET street1 == fillna(row["1F1-Street 1"])
                 street2 == fillna(row["1F1-Street 2"])
             IN StrCell(street1 \o
                        (IF street2 # "" THEN " " \o street2 ELSE ""))
      [] c = "is_registered" ->
             BoolCell(IF "2A1" \in raw.columns THEN ~IsNa(row["2A1"])
                      ELSE TRUE)
      [] c = "services" ->
             StrCell(labels_of(row, raw.columns, service_columns,
                               "services", 1))
      [] c = "client_types" ->
             StrCell(labels_of(row, raw.columns, client_columns,
                               "client_types", 1))
      [] c = "data_source" -> StrCell("SEC IAPD")
      [] c = "last_updated" -> StrCell("today")

\* map_adv_columns_to_standard(df, mappings) when it returns
map_adv_columns_to_standard(raw) ==
    [columns |-> output_columns(raw),
     rows |-> [k \in 1..output_len(raw) |->
                  [c \in output_columns(raw) |->
                      output_cell(raw, raw.rows[k], c)]]]

\* the loaders and the matcher at rest
LoaderIdle == LoaderInit /\ variant = "final" /\ df = <<rowA>>

InitCanon ==
    /\ LoaderIdle /\ Part2Idle /\ Part3Idle /\ Part5Idle /\ Part6Idle
    /\ Part7Idle /\ Part8Idle
    /\ \E raw \in RawTables : cz = [phase |-> "called", raw |-> raw]

\* the call returns the canonical table
CanonReturn ==
    /\ cz.phase = "called" /\ ~canon_raises(cz.raw)
    /\ cz' = [phase |-> "returned", raw |-> cz.raw,
              output_df |-> map_adv_columns_to_standard(cz.raw)]
    /\ UNCHANGED <<loaderVars, seed, ciks, mx, nb, sh, xt, em>>

\* the call ends with an exception
CanonRaise ==
    /\ cz.phase = "called" /\ canon_raises(cz.raw)
    /\ cz' = [phase |-> "raised", raw |-> cz.raw]
    /\ UNCHANGED <<loaderVars, seed, ciks, mx, nb, sh, xt, em>>

NextCanon == CanonReturn \/ CanonRaise

SpecCanon == InitCanon /\ [][NextCanon]_vars

\* required_columns of test_ria_profiles_structure
required_columns == {"firm_name", "crd_number", "data_source", "last_updated"}

\* C12: for any raw table, whatever raw columns it lacks, canonicalization
\* ends without error and returns one row per input row, each with the
\* required canonical columns and no missing value left in a text cell.
C12_CanonicalShape ==
    /\ cz.phase # "raised"
    /\ cz.phase = "returned" =>
           /\ Len(cz.output_df.rows) = Len(cz.raw.rows)
           /\ required_columns \subseteq cz.output_df.columns
           /\ \A k \in 1..Len(cz.output_df.rows) :
                  \A c \in cz.output_df.columns :
                      cz.output_df.rows[k][c].t = "str" =>
                          ~IsNa(cz.output_df.rows[k][c].v)

\* the raw cell a canonical number is read from, NaN when the raw table
\* has no column for it
raw_number(raw, k, c) ==
    IF c \in DOMAIN output_data(raw.columns)
    THEN raw.rows[k][output_data(raw.columns)[c]] ELSE NaN

\* C13: in every canonical row aum and employee_count are integers >= 0,
\* never null: a missing or unparsable raw value gives 0 and "5000000" gives
\* 5000000, also when the raw table has no column for them.
C13_NonNegativeIntegers ==
    cz.phase = "returned" =>
        \A k \in 1..Len(cz.raw.rows) : \A c \in {"aum", "employee_count"} :
            /\ k <= Len(cz.output_df.rows)
            /\ c \in cz.output_df.columns
            /\ cz.output_df.rows[k][c].t = "int"
            /\ cz.output_df.rows[k][c].v >= 0
            /\ raw_number(cz.raw, k, c) \in {NaN, "12,000", "abc"} =>
                   cz.output_df.rows[k][c].v = 0
            /\ raw_number(cz.raw, k, c) = "5000000" =>
                   cz.output_df.rows[k][c].v = 5000000

-----------------------------------------------------------------------------
(* Part 5: the narrative builder, build_narratives.py *)

MaxProfiles == 2
MaxCrs == 1

\* A text is the sequence of its characters; the fixed wording of the
\* template, which holds no period, is written as one element. The state,
\* sec_number, employee_count and client_types clauses are built as the
\* city, crd_number, aum and services clauses are.
NbFirmNames == {NaNName, <<"a">>, <<"a", ".", ".", ".">>}
NbCities == {NaNName, <<"x">>}
NbCrds == {NaNName, <<"1">>}
\* aum of a row: a row with a city manages assets
NbAum(city) == IF city = NaNName THEN 0 ELSE 5000000
NbServices == {NaNName, <<"A", ".">>, <<"A", ".", ".">>}

\* rows of output/ria_profiles.csv as read_csv yields them
NbRows ==
    {[firm_name |-> f, city |-> c, crd_number |-> n, aum |-> NbAum(c),
      services |-> v] :
         f \in NbFirmNames, c \in NbCities, n \in NbCrds, v \in NbServices}

NbTables == UNION {[1..n -> NbRows] : n \in 0..MaxProfiles}

\* rows of a FIRM_CRS file: the cell of a text column
CrsRows == [source : {"FIRM_CRS_1.csv"}, text : {NaNName, <<"t">>}]

CrsTables == UNION {[1..n -> CrsRows] : n \in 0..MaxCrs}

\* truth value of a cell: NaN is a non-zero float
text_truthy(v) == v # <<>>

\* pd.notna(value)
notna(v) == v # NaNName

\* str(value), f"{value}"
text_str(v) == IF v = NaNName THEN <<"nan">> ELSE v

lower_char(c) == IF c = "A" THEN "a" ELSE c

\* str.lower()
str_lower(v) == [k \in 1..Len(v) |-> lower_char(v[k])]

\* the AUM clause: f"${aum/1_000_000:.1f} million" for the amounts of the
\* model
aum_str(aum) == <<"$5", ".", "0 million">>

RECURSIVE join(_, _)
\* sep.join(parts)
join(parts, sep) ==
    IF parts = <<>> THEN <<>>
    ELSE IF Len(parts) = 1 THEN parts[1]
    ELSE parts[1] \o sep \o join(Tail(parts), sep)

RECURSIVE replace_double_period(_)
\* str.replace("..", "."): one pass from the left over non-overlapping
\* occurrences
replace_double_period(text) ==
    IF Len(text) < 2 THEN text
    ELSE IF text[1] = "." /\ text[2] = "."
    THEN <<".">> \o replace_double_period(SubSeq(text, 3, Len(text)))
    ELSE <<text[1]>> \o replace_double_period(Tail(text))

\* build_narrative(row)
build_narrative(row) ==
    LET intro == IF text_truthy(row.firm_name)
                 THEN << text_str(row.firm_name) \o
                         <<" is a registered investment adviser">> >>
                 ELSE <<>>
        location == IF text_truthy(row.city) /\ notna(row.city)
                    THEN << <<"located in ">> \o text_str(row.city) >>
                    ELSE <<>>
        identifiers == IF text_truthy(row.crd_number)
                       THEN << <<"with CRD number ">> \o
                               text_str(row.crd_number) >>
                       ELSE <<>>
        assets == IF row.aum # 0 /\ row.aum > 0
                  THEN << <<"managing ">> \o aum_str(row.aum) \o
                          <<" in assets">> >>
                  ELSE <<>>
        offering == IF text_truthy(row.services) /\ notna(row.services)
                    THEN << <<"offering services including ">> \o
                            str_lower(row.services) >>
                    ELSE <<>>
        parts == intro \o location \o identifiers \o assets \o offering
    IN IF parts # <<>>
       THEN replace_double_period(join(parts, <<".", " ">>) \o <<".">>)
       ELSE <<>>

\* main, lines 149-154: the object written for a profile row
profile_object(row) ==
    [crd_number |-> text_str(row.crd_number),
     narrative |-> build_narrative(row),
     source |-> "ria_profile"]

\* main, line 149: if narrative and row.get('crd_number')
profile_kept(row) ==
    build_narrative(row) # <<>> /\ text_truthy(row.crd_number)

\* main, lines 146-154
profile_narratives_of(profiles) ==
    LET kept == SelectSeq(profiles, profile_kept)
    IN [k \in 1..Len(kept) |-> profile_object(kept[k])]

\* extract_brochure_narratives(raw_dir)
extract_brochure_narratives == <<>>

crs_kept(row) == notna(row.text)

\* extract_form_crs_narratives(raw_dir)
extract_form_crs_narratives(crs) ==
    LET kept == SelectSeq(crs, crs_kept)
    IN [k \in 1..Len(kept) |->
           [source |-> kept[k].source, text |-> text_str(kept[k].text)]]

NbStart(profiles, crs) ==
    [phase |-> "called", df |-> profiles, crs |-> crs, built |-> <<>>,
     profile_narratives |-> <<>>, brochure_narratives |-> <<>>,
     crs_narratives |-> <<>>, narratives_json |-> <<>>]

InitNarr ==
    /\ LoaderIdle /\ Part2Idle /\ Part3Idle /\ Part4Idle /\ Part6Idle
    /\ Part7Idle /\ Part8Idle
    /\ \E profiles \in NbTables : \E crs \in CrsTables :
           nb = NbStart(profiles, crs)

\* main, lines 143-156: one narrative per profile row
NbProfiles ==
    /\ nb.phase = "called"
    /\ nb' = [nb EXCEPT
                !.phase = "profiles",
                !.built = [k \in 1..Len(nb.df) |-> build_narrative(nb.df[k])],
                !.profile_narratives = profile_narratives_of(nb.df)]
    /\ UNCHANGED <<loaderVars, seed, ciks, mx, cz, sh, xt, em>>

\* main, lines 158-167: brochures and Form CRS files
NbExtract ==
    /\ nb.phase = "profiles"
    /\ nb' = [nb EXCEPT
                !.phase = "extracted",
                !.brochure_narratives = extract_brochure_narratives,
                !.crs_narratives = extract_form_crs_narratives(nb.crs)]
    /\ UNCHANGED <<loaderVars, seed, ciks, mx, cz, sh, xt, em>>

\* main, lines 169-179: narratives.json is written
NbSave ==
    /\ nb.phase = "extracted"
    /\ nb' = [nb EXCEPT
                !.phase = "saved",
                !.narratives_json = nb.profile_narratives \o
                                    nb.brochure_narratives \o
                                    nb.crs_narratives]
    /\ UNCHANGED <<loaderVars, seed, ciks, mx, cz, sh, xt, em>>

NextNarr == NbProfiles \/ NbExtract \/ NbSave

SpecNarr == InitNarr /\ [][NextNarr]_vars

HasDoublePeriod(text) ==
    \E k \in 1..(Len(text) - 1) : text[k] = "." /\ text[k + 1] = "."

\* C14: whatever the characters of the fields of a profile row, the text
\* that build_narrative returns for it holds no two consecutive periods.
C14_NoDoublePeriod ==
    \A k \in 1..Len(nb.built) : ~HasDoublePeriod(nb.built[k])

\* C15: every object of narratives.json carries the keys crd_number,
\* narrative and source.
C15_NarrativeKeys ==
    nb.phase = "saved" =>
        \A k \in 1..Len(nb.narratives_json) :
            {"crd_number", "narrative", "source"} \subseteq
                DOMAIN nb.narratives_json[k]

profile_crds == {text_str(nb.df[k].crd_number) :
                     k \in {n \in 1..Len(nb.df) : notna(nb.df[n].crd_number)}}

\* C16: every crd_number of narratives.json is the crd_number of a profile
\* row, and a profile row yields an object only when its narrative is not
\* empty and it has a crd_number.
C16_NarrativeCrds ==
    nb.phase = "saved" =>
        /\ \A k \in 1..Len(nb.narratives_json) :
               "crd_number" \in DOMAIN nb.narratives_json[k] =>
                   nb.narratives_json[k].crd_number \in profile_crds
        /\ Len(nb.profile_narratives) =
               Cardinality({k \in 1..Len(nb.df) :
                               /\ notna(nb.df[k].crd_number)
                               /\ build_narrative(nb.df[k]) # <<>>})

-----------------------------------------------------------------------------
(* Part 6: a loader or updater script run from the shell *)

ShScripts == {"load_to_supabase_final", "populate_all_private_placement_data",
              "load_ria_profiles"}

\* the credentials the script asks the environment for:
\* load_ria_profiles has a default for the URL
credentials_present(s) ==
    IF s.script = "load_ria_profiles" THEN s.key ELSE s.url /\ s.key

\* the process ends with this status; summary tells whether the closing
\* summary was printed
sys_exit(s, status, summary) ==
    [s EXCEPT !.phase = "exited", !.status = status, !.summary = summary]

\* the environment, the working directory, the store and the operator's
\* answer that a script meets
ShStart ==
    {[phase |-> "started", script |-> c, url |-> u, key |-> k, file |-> f,
      store_error |-> e, confirm |-> y, status |-> -1, summary |-> FALSE] :
         c \in ShScripts, u \in BOOLEAN, k \in BOOLEAN, f \in BOOLEAN,
         e \in BOOLEAN, y \in BOOLEAN}

InitShell ==
    /\ LoaderIdle /\ Part2Idle /\ Part3Idle /\ Part4Idle /\ Part5Idle
    /\ Part7Idle /\ Part8Idle
    /\ sh \in {s \in ShStart :
                  s.script # "populate_all_private_placement_data" => s.confirm}

\* module level of the script: load_to_supabase_final reads the credentials
\* while it is imported and exits with status 1 without them
ShImport ==
    /\ sh.phase = "started"
    /\ sh' = IF sh.script = "load_to_supabase_final" /\ ~credentials_present(sh)
             THEN sys_exit(sh, 1, FALSE)
             ELSE [sh EXCEPT !.phase = "main"]
    /\ UNCHANGED <<loaderVars, seed, ciks, mx, cz, nb, xt, em>>

\* main up to the first call of the store: a return ends the process with
\* status 0, an exception that nothing catches with status 1
ShMain ==
    /\ sh.phase = "main"
    /\ sh' = CASE sh.script = "load_to_supabase_final" ->
                      IF ~sh.file THEN sys_exit(sh, 0, FALSE)
                      ELSE [sh EXCEPT !.phase = "loading"]
               [] sh.script = "populate_all_private_placement_data" ->
                      IF ~sh.file THEN sys_exit(sh, 0, FALSE)
                      ELSE IF ~credentials_present(sh)
                      THEN sys_exit(sh, 0, FALSE)
                      ELSE [sh EXCEPT !.phase = "loading"]
               [] OTHER ->
                      IF ~credentials_present(sh) THEN sys_exit(sh, 0, FALSE)
                      ELSE IF ~sh.file THEN sys_exit(sh, 1, FALSE)
                      ELSE [sh EXCEPT !.phase = "loading"]
    /\ UNCHANGED <<loaderVars, seed, ciks, mx, cz, nb, xt, em>>

\* the rest of main: the calls of the store and the closing summary
ShLoad ==
    /\ sh.phase = "loading"
    /\ sh' = CASE sh.script = "load_to_supabase_final" ->
                      IF sh.store_error THEN sys_exit(sh, 1, FALSE)
                      ELSE sys_exit(sh, 0, TRUE)
               [] sh.script = "populate_all_private_placement_data" ->
                      IF sh.store_error \/ ~sh.confirm
                      THEN sys_exit(sh, 0, FALSE)
                      ELSE sys_exit(sh, 0, TRUE)
               [] OTHER -> sys_exit(sh, 0, TRUE)
    /\ UNCHANGED <<loaderVars, seed, ciks, mx, cz, nb, xt, em>>

NextShell == ShImport \/ ShMain \/ ShLoad

SpecShell == InitShell /\ [][NextShell]_vars

\* C17: a script that misses a required credential or its input file exits
\* with a non-zero status; a script that misses neither, meets a working
\* store and is told to proceed prints its summary and exits with status 0.
C17_ExitStatus ==
    sh.phase = "exited" =>
        /\ (~credentials_present(sh) \/ ~sh.file) => sh.status # 0
        /\ (credentials_present(sh) /\ sh.file /\ ~sh.store_error /\ sh.confirm)
               => (sh.status = 0 /\ sh.summary)

-----------------------------------------------------------------------------
(* Further properties of the loaders *)

\* C18: whatever the runs and their input, the store holds at most one
\* narrative row for a filing, also when several narratives of one run
\* resolve to the same filing.
C18_OneNarrativePerFiling ==
    \A a, b \in ria_narratives : a.filing_fk = b.filing_fk => a = b

\* the store has rejected the call this step made, and the run goes on
CallRejected == hist'.rejects = hist.rejects + 1 /\ pc' # "aborted"

\* C19: when the store rejects a batch insert of filings or of narratives, the
\* loader stays on that batch and submits its records one by one, from the
\* first, as load_advisers does after a rejected upsert (i kept, j = 1).
C19_InsertFallback ==
    [][(pc \in {"fil_insert", "narr_insert"} /\ CallRejected)
           => (i' = i /\ j' = 1)]_vars

\* the adviser records load_advisers derives from the rows of this run
derived == advisers_data(variant, df)

\* C20: when several rows of one load derive the same cik, load_advisers
\* submits exactly one adviser record for that cik, and the record has the
\* fields of the first of these rows in input order.
C20_FirstOccurrenceWins ==
    pc \in InRun =>
        \A k \in 1..Len(derived) :
            LET first == CHOOSE m \in 1..Len(derived) :
                             /\ derived[m].cik = derived[k].cik
                             /\ \A n \in 1..(m - 1) :
                                    derived[n].cik # derived[k].cik
            IN /\ Cardinality({u \in 1..Len(unique_advisers) :
                       unique_advisers[u].cik = derived[k].cik}) = 1
               /\ \E u \in 1..Len(unique_advisers) :
                      unique_advisers[u] = derived[first]

\* every adviser batch of a load has been submitted in which two rows with
\* different fields derived the same cik
C20_Witness ==
    /\ pc = "adv_select"
    /\ \E a, b \in 1..Len(derived) :
           /\ a < b
           /\ derived[a].cik = derived[b].cik
           /\ derived[a] # derived[b]
    /\ Len(unique_advisers) < Len(derived)

-----------------------------------------------------------------------------
(* Further properties of the matchers *)

\* the firm name of the row is absent or has no character but blanks
NameAbsent(row) ==
    ~IsText(row.firm_name) \/ first_token(row.firm_name) = <<>>

\* there are existing profiles and none of them has a name
NoExistingName ==
    /\ mx.existing_df # <<>>
    /\ \A e \in 1..Len(mx.existing_df) : ~IsText(mx.existing_df[e].legal_name)

\* the exact strategy on the identifier applies to the row
KeyMatched(row) ==
    /\ mx.matcher = "existing"
    /\ \E e \in 1..Len(mx.existing_df) :
           SameIdentifier(row.crd_number, mx.existing_df[e].crd_number)

\* C21: a row whose firm name is empty or absent, or that meets only
\* existing profiles without a name, gets the result none unless the
\* identifier matched exactly, and the matcher does not raise at such a row.
C21_AbsentNameIsNone ==
    /\ \A k \in 1..Len(mx.matches) :
           LET row == mx.private_fund_df[k] IN
           ((NameAbsent(row) \/ NoExistingName) /\ ~KeyMatched(row))
               => mx.matches[k].match_type = "none"
    /\ (mx.phase = "raised" /\ mx.k >= 1) =>
           ~(NameAbsent(mx.private_fund_df[mx.k]) \/ NoExistingName)

-----------------------------------------------------------------------------
(* Further properties of the canonicalizer *)

\* the canonical text of row k in column c, "" when the table that was
\* returned has no such column
canonical_text(k, c) ==
    IF c \in cz.output_df.columns THEN cz.output_df.rows[k][c].v ELSE ""

\* C22: when the raw table has both 1A and 1B1, the firm_name of each
\* canonical row is the 1A cell of its raw row when that is populated, else
\* the 1B1 cell, decided row by row.
C22_FirstPopulatedName ==
    (cz.phase = "returned" /\ {"1A", "1B1"} \subseteq cz.raw.columns) =>
        \A k \in 1..Len(cz.raw.rows) :
            /\ k <= Len(cz.output_df.rows)
            /\ canonical_text(k, "firm_name") =
                   IF ~IsNa(cz.raw.rows[k]["1A"]) THEN cz.raw.rows[k]["1A"]
                   ELSE fillna(cz.raw.rows[k]["1B1"])

\* the raw table has a coded column of the table
SomePresent(table) ==
    \E e \in 1..Len(table) : table[e][1] \in cz.raw.columns

RECURSIVE YLabels(_, _, _, _)
\* the labels of the coded columns from e on that are present and hold "Y"
\* in the row, each once, in the declared order, joined with ", "
YLabels(row, columns, table, e) ==
    IF e > Len(table) THEN ""
    ELSE LET rest == YLabels(row, columns, table, e + 1) IN
         IF table[e][1] \notin columns \/ row[table[e][1]] # "Y" THEN rest
         ELSE IF rest = "" THEN table[e][2]
         ELSE table[e][2] \o ", " \o rest

\* C23: for every raw row, the canonical services text holds the label of a
\* service column that is present exactly when the row has "Y" in that
\* column, the labels in the declared order, joined with ", ", none twice.
C23_ServiceLabels ==
    (cz.phase = "returned" /\ SomePresent(service_columns)) =>
        \A k \in 1..Len(cz.raw.rows) :
            /\ k <= Len(cz.output_df.rows)
            /\ canonical_text(k, "services") =
                   YLabels(cz.raw.rows[k], cz.raw.columns, service_columns, 1)

\* C24: for every raw row, the canonical client_types text holds the label
\* of a client-type column that is present exactly when the row has "Y" in
\* that column, under the rules of the services text; reading the column
\* does not end the call.
C24_ClientLabels ==
    /\ (cz.phase = "returned" /\ SomePresent(client_columns)) =>
           \A k \in 1..Len(cz.raw.rows) :
               /\ k <= Len(cz.output_df.rows)
               /\ canonical_text(k, "client_types") =
                      YLabels(cz.raw.rows[k], cz.raw.columns,
                              client_columns, 1)
    /\ cz.phase = "raised" =>
           ~\E e \in 1..Len(client_columns) :
               /\ client_columns[e][1] \in cz.raw.columns
               /\ column_is_text(cz.raw, client_columns[e][1])

-----------------------------------------------------------------------------
(* Part 7: extract_sec.extract_adv_base_data *)

MaxFileRows == 2

\* the monthly directories under raw/, and the base file of each
AdvDirs == {"ADV_Filing_Data_1", "adv-filing-data-2"}

base_file_name(dir) ==
    IF dir = "ADV_Filing_Data_1" THEN "IA_ADV_Base_A_1.csv"
    ELSE "IA_ADV_Base_A_2.csv"

\* the order of the file names as strings
source_rank(source_file) == IF source_file = "IA_ADV_Base_A_1.csv" THEN 1 ELSE 2

\* rows of a base file: the filing identifier (an empty cell is NaN) and
\* the other cells, which tell rows of one filing apart
BaseRows == {[FilingID |-> "10", name |-> "a"], [FilingID |-> "10", name |-> "b"],
             [FilingID |-> "11", name |-> "a"], [FilingID |-> NaN, name |-> "a"]}

\* what a directory holds: no base file, a base file that read_csv cannot
\* parse, or a base file with rows
DirContents ==
    {[file |-> "missing", rows |-> <<>>], [file |-> "unparsable", rows |-> <<>>]}
    \cup {[file |-> "read", rows |-> r] :
             r \in UNION {[1..n -> BaseRows] : n \in 1..MaxFileRows}}

\* lines 50-54: the copy of the file's table with source_file and
\* filing_period added
df_filtered(dir, rows) ==
    [k \in 1..Len(rows) |->
        [FilingID |-> rows[k].FilingID, name |-> rows[k].name,
         source_file |-> base_file_name(dir), filing_period |-> dir]]

\* the orders in which a sort that is not stable can leave the rows of
\* one key
Perms(rows) ==
    {[k \in 1..Len(rows) |-> rows[q[k]]] :
        q \in {f \in [1..Len(rows) -> 1..Len(rows)] :
                  \A a, b \in 1..Len(rows) : f[a] = f[b] => a = b}}

\* the frames of all_data in the order of their source_file
by_source_file(all_data) ==
    LET n == Len(all_data)
        below(k) == Cardinality({m \in 1..n :
                        source_rank(all_data[m][1].source_file)
                            < source_rank(all_data[k][1].source_file)})
    IN [o \in 1..n |-> all_data[CHOOSE k \in 1..n : below(k) = o - 1]]

RECURSIVE concat(_)
\* pd.concat(all_data, ignore_index=True)
concat(frames) ==
    IF frames = <<>> THEN <<>> ELSE Head(frames) \o concat(Tail(frames))

RECURSIVE sort_values(_)
\* pd.concat(all_data).sort_values('source_file'), frames given in the
\* order of their key: every result the default quicksort can give
sort_values(frames) ==
    IF frames = <<>> THEN {<<>>}
    ELSE {front \o rest : front \in Perms(Head(frames)),
                          rest \in sort_values(Tail(frames))}

\* a de-duplication that keeps the first row of each FilingID
KeepFirstFiling(rows) ==
    LET idx == {k \in 1..Len(rows) :
                   \A m \in 1..(k - 1) : rows[m].FilingID # rows[k].FilingID}
    IN [n \in 1..Cardinality(idx) |->
           rows[CHOOSE k \in idx : Cardinality({m \in idx : m <= k}) = n]]

\* drop_duplicates(subset=['FilingID'], keep='last'); missing identifiers
\* count as equal
drop_duplicates(rows) ==
    LET idx == {k \in 1..Len(rows) :
                   \A m \in (k + 1)..Len(rows) :
                       rows[m].FilingID # rows[k].FilingID}
    IN [n \in 1..Cardinality(idx) |->
           rows[CHOOSE k \in idx : Cardinality({m \in idx : m <= k}) = n]]

InitExtract ==
    /\ LoaderIdle /\ Part2Idle /\ Part3Idle
    /\ Part4Idle /\ Part5Idle /\ Part6Idle /\ Part8Idle
    /\ \E dirs \in [AdvDirs -> DirContents] : \E c \in BOOLEAN :
           xt = [phase |-> "loop", dirs |-> dirs, has_FilingID |-> c,
                 todo |-> AdvDirs, all_data |-> <<>>, combined_df |-> <<>>]

\* lines 32-36: the directory has no base file
XtNoBaseFile ==
    /\ xt.phase = "loop"
    /\ \E d \in xt.todo :
           /\ xt.dirs[d].file = "missing"
           /\ xt' = [xt EXCEPT !.todo = @ \ {d}]
    /\ UNCHANGED <<loaderVars, seed, ciks, mx, cz, nb, sh, em>>

\* lines 41-43 and 58-60: read_csv raises, the error is printed
XtReadError ==
    /\ xt.phase = "loop"
    /\ \E d \in xt.todo :
           /\ xt.dirs[d].file = "unparsable"
           /\ xt' = [xt EXCEPT !.todo = @ \ {d}]
    /\ UNCHANGED <<loaderVars, seed, ciks, mx, cz, nb, sh, em>>

\* lines 41-56: the table of the file is appended to all_data
XtAppend ==
    /\ xt.phase = "loop"
    /\ \E d \in xt.todo :
           /\ xt.dirs[d].file = "read"
           /\ xt' = [xt EXCEPT
                        !.todo = @ \ {d},
                        !.all_data = Append(@, df_filtered(d, xt.dirs[d].rows))]
    /\ UNCHANGED <<loaderVars, seed, ciks, mx, cz, nb, sh, em>>

\* lines 62-64: nothing was read
XtNoData ==
    /\ xt.phase = "loop" /\ xt.todo = {} /\ xt.all_data = <<>>
    /\ xt' = [xt EXCEPT !.phase = "none"]
    /\ UNCHANGED <<loaderVars, seed, ciks, mx, cz, nb, sh, em>>

\* lines 66-85: concat, de-duplication and save
XtCombine ==
    /\ xt.phase = "loop" /\ xt.todo = {} /\ xt.all_data # <<>>
    /\ \E sorted \in sort_values(by_source_file(xt.all_data)) :
           xt' = [xt EXCEPT
                     !.phase = "saved",
                     !.combined_df =
                         IF xt.has_FilingID THEN drop_duplicates(sorted)
                         ELSE concat(xt.all_data)]
    /\ UNCHANGED <<loaderVars, seed, ciks, mx, cz, nb, sh, em>>

NextExtract ==
    XtNoBaseFile \/ XtReadError \/ XtAppend \/ XtNoData \/ XtCombine

SpecExtract == InitExtract /\ [][NextExtract]_vars

\* the directories whose base file was read
Readable == {d \in AdvDirs : xt.dirs[d].file = "read"}

\* C25: in the combined table no two rows share a FilingID, the row kept for
\* a FilingID is a row of the last source file, in the order of the sources,
\* that holds this FilingID, and a directory whose base file is missing or
\* cannot be parsed does not keep the others from being combined.
C25_LatestFilingKept ==
    /\ (xt.phase = "saved" /\ xt.has_FilingID) =>
           /\ \A p, q \in 1..Len(xt.combined_df) :
                  xt.combined_df[p].FilingID = xt.combined_df[q].FilingID
                      => p = q
           /\ \A p \in 1..Len(xt.combined_df) :
                  /\ \E d \in Readable : \E k \in 1..Len(xt.dirs[d].rows) :
                         xt.combined_df[p] =
                             df_filtered(d, xt.dirs[d].rows)[k]
                  /\ \A d \in Readable : \A k \in 1..Len(xt.dirs[d].rows) :
                         xt.dirs[d].rows[k].FilingID
                             = xt.combined_df[p].FilingID
                         => source_rank(base_file_name(d)) <=
                                source_rank(xt.combined_df[p].source_file)
           /\ \A d \in Readable : \A k \in 1..Len(xt.dirs[d].rows) :
                  \E p \in 1..Len(xt.combined_df) :
                      xt.combined_df[p].FilingID = xt.dirs[d].rows[k].FilingID
    /\ xt.phase = "none" => Readable = {}
    /\ (xt.phase = "loop" /\ xt.todo = {}) =>
           Len(xt.all_data) = Cardinality(Readable)

\* both source files held the FilingID 10 with different cells, and a
\* combined table of two rows was saved
C25_Witness ==
    /\ xt.phase = "saved" /\ xt.has_FilingID
    /\ Readable = AdvDirs
    /\ \E a \in 1..Len(xt.dirs["ADV_Filing_Data_1"].rows) :
       \E b \in 1..Len(xt.dirs["adv-filing-data-2"].rows) :
           /\ xt.dirs["ADV_Filing_Data_1"].rows[a].FilingID = "10"
           /\ xt.dirs["adv-filing-data-2"].rows[b].FilingID = "10"
           /\ xt.dirs["ADV_Filing_Data_1"].rows[a].name
                  # xt.dirs["adv-filing-data-2"].rows[b].name
    /\ Len(xt.combined_df) = 2

-----------------------------------------------------------------------------
(* Loader runs on a profiles table whose crd_number column holds numbers *)

\* a row whose crd_number is 0: build_narratives writes no narrative for it
rowZ == [firm_name |-> "Z", sec_number |-> NaN, crd_number |-> Zero,
         city |-> "X", state |-> "MO", aum |-> 1]

NumberedTables == UNION {[1..n -> {rowZ, rowA, rowB}] : n \in 1..MaxRows}

InitNumbered ==
    /\ variant \in Variants /\ df \in NumberedTables /\ LoaderStart
    /\ Part2Idle /\ Part3Idle /\ EtlIdle

SpecNumbered == InitNumbered /\ [][Next]_vars

\* C26: in load_to_supabase_final every narrative row is attached to the
\* adviser of the profile row its text was built from, also when the
\* narratives file has no entry for some profile row.
C26_NarrativeOfOwnAdviser ==
    (variant = "final" /\ run = 1) =>
        \A n \in ria_narratives :
            \E k \in 1..Len(df) :
                /\ n.narrative_text = profile_narrative(df[k])
                /\ \E a \in advisers :
                       a.adviser_pk = n.adviser_fk /\ a.cik = final_cik(df[k])

-----------------------------------------------------------------------------
(* Part 8: embed_narratives_sample.generate_and_store_embeddings          *)

MaxNarr == 2
MaxBatches == 2
MaxCount == 3

\* the vectors a generator can return for a text (the mock one draws them
\* at random, lines 52-63)
Vectors == {"v1", "v2"}

\* the rows of the remote table narratives: id, narrative_text, embedding
NarrativeTables ==
    UNION {[1..n -> [narrative_text : {"A", "B"},
                     embedding : {PyNone, "v1"}]] : n \in 0..MaxNarr}

\* the counters printed in the summary, followed up to MaxCount
Bump(c) == IF c < MaxCount THEN c + 1 ELSE c

\* line 158: the ids of the rows whose embedding is null
is_null(table) == {n \in DOMAIN table : table[n].embedding = PyNone}

\* line 158: .limit(batch_size), the store returns the rows in any order
limit(ids, batch_size) ==
    {b \in SUBSET ids : Cardinality(b) = Min(batch_size, Cardinality(ids))}

\* line 167: update({'embedding': embedding}).eq('id', narrative_id)
update_embedding(table, narrative_id, embedding) ==
    [table EXCEPT ![narrative_id].embedding = embedding]

\* line 173: max_batches is None or a number
Unset == [given |-> FALSE, n |-> 0]
Given(n) == [given |-> TRUE, n |-> n]

\* lines 184-186 and 238-241: main passes a batch size and no max_batches;
\* the function also accepts a number of batches
InitEmbed ==
    /\ LoaderIdle /\ Part2Idle /\ Part3Idle
    /\ Part4Idle /\ Part5Idle /\ Part6Idle /\ Part7Idle
    /\ \E table \in NarrativeTables :
       \E batch_size \in 1..MaxNarr :
       \E max_batches \in {Unset} \cup {Given(n) : n \in 0..MaxBatches} :
           em = [phase |-> "while", narratives |-> table,
                 batch_size |-> batch_size, max_batches |-> max_batches,
                 batch_count |-> 0, success_count |-> 0, error_count |-> 0,
                 narrative_ids |-> {}, embeddings |-> <<>>]

MaxReached ==
    em.max_batches.given /\ em.batch_count >= em.max_batches.n

\* lines 190-191: the maximum number of batches is reached
EmMaxBatches ==
    /\ em.phase = "while" /\ MaxReached
    /\ em' = [em EXCEPT !.phase = "done"]
    /\ UNCHANGED <<loaderVars, seed, ciks, mx, cz, nb, sh, xt>>

\* lines 160-162 and 195-197: the select raises, the empty list is returned
EmFetchError ==
    /\ em.phase = "while" /\ ~MaxReached
    /\ em' = [em EXCEPT !.phase = "done"]
    /\ UNCHANGED <<loaderVars, seed, ciks, mx, cz, nb, sh, xt>>

\* lines 194-197: no narrative without an embedding is left
EmNoMore ==
    /\ em.phase = "while" /\ ~MaxReached
    /\ is_null(em.narratives) = {}
    /\ em' = [em EXCEPT !.phase = "done"]
    /\ UNCHANGED <<loaderVars, seed, ciks, mx, cz, nb, sh, xt>>

\* lines 194-207: a batch is fetched and its embeddings are generated
EmBatch ==
    /\ em.phase = "while" /\ ~MaxReached
    /\ is_null(em.narratives) # {}
    /\ \E b \in limit(is_null(em.narratives), em.batch_size) :
       \E e \in [b -> Vectors] :
           em' = [em EXCEPT !.phase = "for",
                            !.batch_count = Bump(@),
                            !.narrative_ids = b,
                            !.embeddings = e]
    /\ UNCHANGED <<loaderVars, seed, ciks, mx, cz, nb, sh, xt>>

\* lines 210-212 and 166-168: the store accepts the update
EmUpdated ==
    /\ em.phase = "for"
    /\ \E n \in em.narrative_ids :
           /\ \A m \in em.narrative_ids : n <= m
           /\ em' = [em EXCEPT
                  !.narratives =
                      update_embedding(@, n, em.embeddings[n]),
                  !.success_count = Bump(@),
                  !.narrative_ids = @ \ {n}]
    /\ UNCHANGED <<loaderVars, seed, ciks, mx, cz, nb, sh, xt>>

\* lines 210-214 and 169-171: the store rejects the update, False is
\* returned and the error is counted
EmRejected ==
    /\ em.phase = "for"
    /\ \E n \in em.narrative_ids :
           /\ \A m \in em.narrative_ids : n <= m
           /\ em' = [em EXCEPT !.error_count = Bump(@),
                               !.narrative_ids = @ \ {n}]
    /\ UNCHANGED <<loaderVars, seed, ciks, mx, cz, nb, sh, xt>>

\* line 217: the batch is finished, the loop goes round after the sleep
EmSleep ==
    /\ em.phase = "for" /\ em.narrative_ids = {}
    /\ em' = [em EXCEPT !.phase = "while", !.embeddings = <<>>]
    /\ UNCHANGED <<loaderVars, seed, ciks, mx, cz, nb, sh, xt>>

NextEmbed ==
    \/ EmMaxBatches \/ EmFetchError \/ EmNoMore \/ EmBatch
    \/ EmUpdated \/ EmRejected \/ EmSleep

SpecEmbed == InitEmbed /\ [][NextEmbed]_vars

\* the script is a single thread that keeps running: a step is taken
\* whenever one is possible
FairEmbed == SpecEmbed /\ WF_vars(NextEmbed)

\* C27: generate_and_store_embeddings called without max_batches comes to
\* its final summary for every finite table of narratives, also when the
\* store rejects the update of some narrative.
C27_Terminates ==
    (em.phase # "off" /\ em.max_batches = Unset) ~> (em.phase = "done")

\* C27, second half: a step of the embedding stage changes nothing of a
\* narrative but its embedding, and only where the embedding was null.
C27_OnlyNullEmbeddings ==
    [][/\ DOMAIN em'.narratives = DOMAIN em.narratives
       /\ \A n \in DOMAIN em.narratives :
              /\ em'.narratives[n].narrative_text
                     = em.narratives[n].narrative_text
              /\ em'.narratives[n].embedding # em.narratives[n].embedding
                     => em.narratives[n].embedding = PyNone]_vars

-----------------------------------------------------------------------------
(* Further properties of the loaders: the filings of an adviser *)

\* C28: whatever loader runs have been made on a store that was empty,
\* no adviser has two filing rows, in either variant, also when several
\* rows of the table resolve to the same adviser.
C28_OneFilingPerAdviser ==
    \A f, g \in filings : f.adviser_fk = g.adviser_fk => f = g

-----------------------------------------------------------------------------
(* Further properties of the matchers: the correspondence *)

\* C29: the matcher never resolves two analytical rows of different
\* identifiers to the same existing profile, so that update_database
\* writes each profile at most once in a run.
C29_OneToOne ==
    mx.phase \in {"loop", "returned"} =>
        \A k, l \in 1..Len(mx.matches) :
            (/\ mx.private_fund_df[k].crd_number
                    # mx.private_fund_df[l].crd_number
             /\ mx.matches[k].ref # 0)
                => mx.matches[k].ref # mx.matches[l].ref

-----------------------------------------------------------------------------
(* Further properties of the loaders: the row a filing is built from *)

\* the first row of the table whose identifier is cik
FirstRowOf(cik) ==
    df[CHOOSE k \in 1..Len(df) :
           /\ final_cik(df[k]) = cik
           /\ \A m \in 1..(k - 1) : final_cik(df[m]) # cik]

\* C30: in the first run of load_to_supabase_final the filing of an adviser
\* carries the total_aum of the first row of the table that has the
\* adviser's cik, also when another row has the same firm name.
C30_FilingOfOwnRow ==
    (variant = "final" /\ run = 1) =>
        \A f \in filings : \A a \in advisers :
            (/\ a.adviser_pk = f.adviser_fk
             /\ \E k \in 1..Len(df) : final_cik(df[k]) = a.cik)
                => f.total_aum = total_aum_of(FirstRowOf(a.cik))

====
